---- MODULE Spec2Model ----
(***************************************************************************)
(* Model of include/libint2/engine.h: OneBodyEngine and TwoBodyEngine.     *)
(*                                                                         *)
(* Numbers are modelled symbolically.  A buffer element is a sum of atoms: *)
(*   <<"K", n, idx>>     element idx of the output of the n-th kernel      *)
(*                       invocation of the current compute call            *)
(*   <<"seed", fam, t>>  an order-0 seed value written by compute_primdata *)
(*   <<"stale">>         a value left in memory by an earlier call, or     *)
(*                       never initialized                                 *)
(* Array indices are 0-based, as in the source: a buffer is a function on  *)
(* 0..n-1.                                                                 *)
(***************************************************************************)
EXTENDS Integers, Sequences, FiniteSets, Bags, TLC

VARIABLES basis, ob, obcall, tb, tbcall, es, mem, lcall, res, pc

vars == <<basis, ob, obcall, tb, tbcall, es, mem, lcall, res, pc>>

\* the engines of a run with several engines, and the storage they own
lifevars == <<es, mem, lcall, res, pc>>

(***************************************************************************)
(* Compile-time configuration of the recurrence library (libint2.h).       *)
(***************************************************************************)
LIBINT2_MAX_AM_overlap == 2
LIBINT2_MAX_AM_kinetic == 2
LIBINT2_MAX_AM_elecpot == 2
LIBINT2_MAX_AM_ERI == 2
LIBINT2_DERIV_ONEBODY_ORDER == 1
LIBINT2_DERIV_ERI_ORDER == 0

(***************************************************************************)
(* Bounds of the model.                                                    *)
(***************************************************************************)
MaxNprim == 2      \* engines are constructed with max_nprim in 1..MaxNprim
MaxL == 3          \* ... and max_l in 1..MaxL
MaxDeriv == 2      \* ... and deriv_order in 0..MaxDeriv
MaxNuclei == 2     \* set_q is called with at most MaxNuclei nuclei

(***************************************************************************)
(* Shells (libint2::Shell, consumed read-only).                            *)
(***************************************************************************)
Sh(O, l, pure, alpha, coeff, ncontr) ==
  [O |-> O, l |-> l, pure |-> pure, alpha |-> alpha, coeff |-> coeff,
   ncontr |-> ncontr]

ShellTable ==
  <<Sh(<<0, 0, 0>>, 0, FALSE, <<1>>, <<1>>, 1),
    Sh(<<1, 0, 0>>, 1, FALSE, <<2, 3>>, <<1, 2>>, 1),
    Sh(<<0, 1, 0>>, 2, TRUE, <<1, 2, 3>>, <<1, 1, 2>>, 1),
    Sh(<<0, 0, 1>>, 1, TRUE, <<1>>, <<2>>, 1),
    Sh(<<1, 1, 0>>, 0, TRUE, <<3, 1>>, <<2, 1>>, 1),
    Sh(<<0, 0, 2>>, 2, FALSE, <<2, 1, 1>>, <<3, 1, 2>>, 1),
    Sh(<<2, 0, 0>>, 1, FALSE, <<1>>, <<1>>, 2),
    Sh(<<0, 2, 0>>, 2, FALSE, <<2>>, <<3>>, 1)>>

\* the basis sets a run draws the shells of its calls from
OBBases == {{1, 2, 8}, {2, 3, 4}, {1, 5, 7}, {2, 5}, {1, 3, 8}}

\* the shell quartets two-body calls are made with: every combination of the
\* three swap decisions on Cartesian shells of different sizes, (ss|ss),
\* solid-harmonics shells in every position, quartets at and above the
\* capacity of an engine of 2 primitives per shell, doubly contracted shells
TBQuartets ==
  {<<1, 1, 1, 1>>, <<2, 2, 2, 2>>, <<2, 8, 8, 2>>, <<8, 2, 2, 8>>,
   <<1, 2, 1, 8>>, <<8, 1, 2, 1>>, <<2, 8, 2, 2>>, <<8, 8, 2, 8>>,
   <<2, 8, 1, 2>>, <<2, 6, 1, 2>>, <<6, 6, 2, 1>>, <<8, 8, 1, 1>>,
   <<1, 8, 2, 2>>, <<2, 4, 1, 1>>, <<5, 5, 5, 5>>, <<4, 4, 4, 4>>,
   <<3, 4, 1, 2>>, <<4, 3, 2, 1>>, <<2, 3, 1, 4>>, <<3, 3, 1, 1>>,
   <<1, 4, 3, 5>>, <<7, 1, 1, 1>>, <<1, 1, 1, 7>>}

nprim(s) == Len(s.alpha)

cartesian_size(s) == ((s.l + 1) * (s.l + 2)) \div 2

size(s) == IF s.pure THEN 2 * s.l + 1 ELSE cartesian_size(s)

(***************************************************************************)
(* Symbolic numbers: a sum is the sequence of its terms, in the order they *)
(* were added; SumBag forgets the order.                                   *)
(***************************************************************************)
\* a function, evaluated once (TLC evaluates [i \in S |-> e] at every use)
Eager(f) == f @@ <<>>

Zero == <<>>

One(a) == <<a>>

Plus(x, y) == x \o y

Stale == One(<<"stale">>)

RECURSIVE SumBag(_)
SumBag(v) == IF v = <<>> THEN EmptyBag ELSE SetToBag({Head(v)}) (+) SumBag(Tail(v))

(***************************************************************************)
(* Buffers.  A buffer of cap elements is kept as the sequence d of the     *)
(* elements 0..Len(d)-1 the current call has written, followed by elements *)
(* that all are 0 (rest = "zero": never written since the allocation       *)
(* zero-filled them) or all are values left by earlier calls or never      *)
(* initialized (rest = "stale").                                           *)
(***************************************************************************)
NewBuf(cap, rest) == [d |-> <<>>, cap |-> cap, rest |-> rest]

Rd(b, i) ==
  IF i < Len(b.d) THEN b.d[i + 1]
  ELSE IF b.rest = "zero" THEN Zero ELSE Stale

\* the elements 0..n-1 of a buffer
Block(b, n) == Eager([i \in 0..(n - 1) |-> Rd(b, i)])

\* overwrite elements 0..n-1 by new[0..n-1]
Overwrite(b, n, new) ==
  LET m == IF n > Len(b.d) THEN n ELSE Len(b.d)
  IN [b EXCEPT !.d = Eager([k \in 1..m |-> IF k <= n THEN new[k - 1] ELSE b.d[k]])]

\* a buffer as the next call finds it: what earlier calls wrote is stale
AgeBuf(b) ==
  [b EXCEPT !.d = <<>>,
            !.rest = IF b.rest = "zero" /\ \A k \in 1..Len(b.d) : b.d[k] = Zero
                       THEN "zero" ELSE "stale"]

(***************************************************************************)
(* Solid-harmonics transform (libint2/solidharmonics.h), along one axis of *)
(* a row-major tensor of dimensions nouter x ncart(l) x ninner.  Element s *)
(* of the transformed axis is a linear combination of the ncart(l)         *)
(* Cartesian elements of the axis; for l = 0 it is the element itself.     *)
(***************************************************************************)
SphIdx(l, s) == IF l = 0 THEN <<"c", 0>> ELSE <<"s", s>>

SetAx(a, k, x) ==
  IF a[1] = "K" /\ Len(a[3]) >= k
    THEN <<"K", a[2], [a[3] EXCEPT ![k] = x]>>
    ELSE <<"stale">>

MapSum(v, k, x) == Eager([n \in 1..Len(v) |-> SetAx(v[n], k, x)])

\* the slice runs over the Cartesian index of axis k of one tensor
Coherent(slice, k, nc) ==
  \A c \in 1..(nc - 1) : slice[c] = MapSum(slice[0], k, <<"c", c>>)

\* the axis a slice of nc > 1 elements runs over, 0 if it runs over none
AxisOf(slice, nc) ==
  LET a0 == slice[0][1]
      a1 == slice[1][1]
      cand == IF slice[0] # Zero /\ slice[1] # Zero /\ a0[1] = "K" /\ a1[1] = "K"
                   /\ Len(a0[3]) = Len(a1[3])
                THEN {k \in 1..Len(a0[3]) :
                        a0[3][k] = <<"c", 0>> /\ a1[3][k] = <<"c", 1>>}
                ELSE {}
      K == {k \in cand : Coherent(slice, k, nc)}
  IN IF Cardinality(K) = 1 THEN CHOOSE k \in K : TRUE ELSE 0

TransformAxis(src, nouter, l, ninner) ==
  LET nc == ((l + 1) * (l + 2)) \div 2
      ns == 2 * l + 1
      base == Eager([p \in 0..(nouter * ninner - 1) |->
                LET slice == Eager([c \in 0..(nc - 1) |->
                               src[((p \div ninner) * nc + c) * ninner + (p % ninner)]])
                IN IF \A c \in 0..(nc - 1) : slice[c] = Zero THEN <<-1, Zero>>
                   ELSE <<AxisOf(slice, nc), slice[0]>>])
  IN IF l = 0 THEN Eager([t \in 0..(nouter * ninner - 1) |-> src[t]])
     ELSE Eager([t \in 0..(nouter * ns * ninner - 1) |->
            LET b == base[(t \div (ns * ninner)) * ninner + (t % ninner)]
            IN IF b[1] = -1 THEN Zero
               ELSE IF b[1] = 0 THEN Stale
               ELSE MapSum(b[2], b[1], SphIdx(l, (t \div ninner) % ns))])

tform(l_row, l_col, src) ==
  LET nc_col == ((l_col + 1) * (l_col + 2)) \div 2
  IN TransformAxis(TransformAxis(src, 1, l_row, nc_col),
                   2 * l_row + 1, l_col, 1)

tform_rows(l_row, n_col, src) == TransformAxis(src, 1, l_row, n_col)

tform_cols(n_row, l_col, src) == TransformAxis(src, n_row, l_col, 1)

(***************************************************************************)
(* OneBodyEngine                                                           *)
(***************************************************************************)
OBTypes == {"overlap", "kinetic", "nuclear"}

\* a primitive-data record (Libint_t) nothing has been written to
StaleRec ==
  [geom |-> <<"stale">>, op |-> <<"stale">>, OVERLAP |-> <<"stale">>,
   KINETIC |-> <<"stale">>, ELECPOT |-> <<"stale">>]

ncart_max(lmax) == ((lmax + 1) * (lmax + 2)) \div 2

\* the size initialize() gives scratch_
OBScratchSize(lmax, deriv_order) ==
  LET nc == ncart_max(lmax)
  IN CASE deriv_order = 0 -> nc * nc
       [] deriv_order = 1 ->
            IF LIBINT2_DERIV_ONEBODY_ORDER > 0 THEN 3 * nc * nc ELSE 0
       [] deriv_order = 2 ->
            IF LIBINT2_DERIV_ONEBODY_ORDER > 1 THEN 6 * nc * nc ELSE 0
       [] OTHER -> 0

OBMaxAM(t) ==
  CASE t = "overlap" -> LIBINT2_MAX_AM_overlap
    [] t = "kinetic" -> LIBINT2_MAX_AM_kinetic
    [] t = "nuclear" -> LIBINT2_MAX_AM_elecpot
    [] OTHER -> -1

\* the assertions of initialize()
OBInitializeOK(t, max_l, deriv_order) ==
  /\ t \in OBTypes
  /\ max_l <= OBMaxAM(t)
  /\ deriv_order <= LIBINT2_DERIV_ONEBODY_ORDER
  /\ deriv_order < 3

\* OBFmOrder, were the evaluator made for the order of one shell
OBFmOrder_shell(max_l, deriv_order) == max_l + deriv_order

\* the order FmEval_Chebyshev3::instance is asked for
OBFmOrder(max_l, deriv_order) == 2 * max_l + deriv_order

\* OneBodyEngine(t, max_nprim, max_l, deriv_order).  recs are the records of
\* primdata_ written by the last call (the others are stale), stack is the
\* library's stack (primdata_[0].stack, where targets[0] points).
OBConstruct(t, max_nprim, max_l, deriv_order) ==
  [type_ |-> t,
   nprimdata |-> max_nprim * max_nprim,
   lmax_ |-> max_l,
   deriv_order_ |-> deriv_order,
   q_ |-> <<>>,
   fm_max |-> IF t = "nuclear" THEN OBFmOrder(max_l, deriv_order) ELSE -1,
   recs |-> <<>>,
   contrdepth |-> 0,
   stack |-> NewBuf(ncart_max(max_l) * ncart_max(max_l), "stale"),
   scratch_ |-> NewBuf(OBScratchSize(max_l, deriv_order), "zero")]

NoEngine == [type_ |-> "none"]

\* set_q, were the list appended to the charges the engine holds
OBSetQ_append(e, q) == [e EXCEPT !.q_ = @ \o q]

\* set_q
OBSetQ(e, q) == [e EXCEPT !.q_ = q]

Dist2(X, Y) ==
  (X[1] - Y[1]) * (X[1] - Y[1]) + (X[2] - Y[2]) * (X[2] - Y[2])
    + (X[3] - Y[3]) * (X[3] - Y[3])

\* compute_primdata: the record written for primitives p1 of s1 and p2 of s2
\* and operator component oset.  Reals are kept as the exact integers they
\* are functions of: P = gP / gammap, rhop = rhonum / gammap,
\* PC2 = PC2num / gammap^2.
OBPrimData(e, old, s1, s2, p1, p2, oset) ==
  LET A == s1.O
      B == s2.O
      alpha1 == s1.alpha[p1 + 1]
      alpha2 == s2.alpha[p2 + 1]
      c1 == s1.coeff[p1 + 1]
      c2 == s2.coeff[p2 + 1]
      gammap == alpha1 + alpha2
      rhonum == alpha1 * alpha2
      gP == Eager([k \in 1..3 |-> alpha1 * A[k] + alpha2 * B[k]])
      AB2 == Dist2(A, B)
      ovlp_ss == <<gammap, rhonum, AB2, c1 * c2>>
      C == e.q_[oset + 1][2]
      PC2num == Dist2(gP, Eager([k \in 1..3 |-> gammap * C[k]]))
      ltot == s1.l + s2.l
  IN [geom |-> <<A, alpha1, B, alpha2>>,
      op |-> IF e.type_ = "nuclear" THEN e.q_[oset + 1] ELSE old.op,
      OVERLAP |-> ovlp_ss,
      KINETIC |-> IF e.type_ = "kinetic"
                    THEN <<"T", gammap, rhonum, AB2, c1 * c2>>
                    ELSE old.KINETIC,
      ELECPOT |-> IF e.type_ = "nuclear"
                    THEN <<e.q_[oset + 1][1], PC2num, ltot,
                           gammap, rhonum, AB2, c1 * c2>>
                    ELSE old.ELECPOT]

\* the order-0 seed the (s|s) shortcut reads from a record
OBSeed(type, rec) ==
  CASE type = "overlap" -> rec.OVERLAP
    [] type = "kinetic" -> rec.KINETIC
    [] type = "nuclear" -> rec.ELECPOT
    [] OTHER -> <<"stale">>

\* OBSwap, were the shells swapped when the first is the heavier
OBSwap_gt(l1, l2) == l1 > l2

\* swap decision, standard shell-quartet set: make sure bra.l >= ket.l
OBSwap(l1, l2) == l1 < l2

\* OBUseScratch, were a swapped call not routed through scratch_
OBUseScratch_nuc(swap, type) == type = "nuclear"

OBUseScratch(swap, type) == swap \/ type = "nuclear"

OBDerivOK(e) == e.deriv_order_ = 0

\* OBNoNuclei, were the charge list not looked at
OBNoNuclei_off(e) == FALSE

OBNoNuclei(e) == e.type_ = "nuclear" /\ Len(e.q_) = 0

\* OBPrimOK, were the comparison strict
OBPrimOK_lt(e, nprimpairs) == nprimpairs < e.nprimdata

OBPrimOK(e, nprimpairs) == nprimpairs <= e.nprimdata

OBLmaxOK(e, lmax) == lmax <= e.lmax_

\* index of the record of primitive pair (pb, pk)
OBP12(pb, pk, nprim_ket) == pb * nprim_ket + pk

\* record p of a record array of which the sequence recs is written
RdRec(recs, p) == IF p < Len(recs) THEN recs[p + 1] ELSE StaleRec

\* the primitive loop: one record per primitive pair of (bra, ket)
OBFillRecs(e, recs, bra, ket, oset) ==
  LET P == {<<pb, pk>> : pb \in 0..(nprim(bra) - 1), pk \in 0..(nprim(ket) - 1)}
      I == {OBP12(x[1], x[2], nprim(ket)) : x \in P} \cup {Len(recs) - 1}
      top == CHOOSE p \in I : \A r \in I : r <= p
  IN Eager([k \in 1..(top + 1) |->
        IF \E x \in P : OBP12(x[1], x[2], nprim(ket)) = k - 1
          THEN LET x == CHOOSE x \in P : OBP12(x[1], x[2], nprim(ket)) = k - 1
               IN OBPrimData(e, RdRec(recs, k - 1), bra, ket, x[1], x[2], oset)
          ELSE RdRec(recs, k - 1)])

\* OBSumSeeds, were the sum started from the first seed instead of from what
\* the stack holds
RECURSIVE OBSumSeeds_first(_, _, _, _)
OBSumSeeds_first(acc, type, recs, n) ==
  IF n = 0 THEN Zero
  ELSE Plus(OBSumSeeds_first(acc, type, recs, n - 1),
            One(<<"seed", type, OBSeed(type, RdRec(recs, n - 1))>>))

\* the (s|s) shortcut: result += seed of every record below contrdepth
RECURSIVE OBSumSeeds(_, _, _, _)
OBSumSeeds(acc, type, recs, n) ==
  IF n = 0 THEN acc
  ELSE Plus(OBSumSeeds(acc, type, recs, n - 1),
            One(<<"seed", type, OBSeed(type, RdRec(recs, n - 1))>>))

\* libint2_build_<type>[lb][lk](&primdata_[0]): the n-th kernel invocation
\* of a call writes a Cartesian block of ncb x nck elements
OBKernel(n, ncb, nck) ==
  Eager([i \in 0..(ncb * nck - 1) |->
     One(<<"K", n, <<<<"c", i \div nck>>, <<"c", i % nck>>>>>>)])

\* what a kernel invocation consumed: the records below contrdepth
OBKernelInput(type, lb, lk, recs, depth) ==
  [fam |-> type, l |-> <<lb, lk>>,
   recs |-> Eager([k \in 1..depth |-> RdRec(recs, k - 1)])]

\* OBAccumulate, were the block stored instead of added
OBAccumulate_last(scratch, braket, swap, ncart1, ncart2) ==
  Overwrite(scratch, ncart1 * ncart2,
    [k \in 0..(ncart1 * ncart2 - 1) |->
       LET i == k \div ncart2
           j == k % ncart2
       IN IF swap THEN braket[j * ncart1 + i] ELSE braket[i * ncart2 + j]])

\* OBAccumulate, were the swapped block not transposed
OBAccumulate_noT(scratch, braket, swap, ncart1, ncart2) ==
  Overwrite(scratch, ncart1 * ncart2,
    [k \in 0..(ncart1 * ncart2 - 1) |-> Plus(Rd(scratch, k), braket[k])])

\* set12 += braket.transpose() (swap) or set12 += braket
OBAccumulate(scratch, braket, swap, ncart1, ncart2) ==
  Overwrite(scratch, ncart1 * ncart2,
    [k \in 0..(ncart1 * ncart2 - 1) |->
       LET i == k \div ncart2
           j == k % ncart2
       IN Plus(Rd(scratch, k), IF swap THEN braket[j * ncart1 + i]
                                       ELSE braket[i * ncart2 + j])])

\* one pass of the loop over operator components
RECURSIVE OBOperLoop(_, _, _)
OBOperLoop(c, st, oset) ==
  IF oset = c.num_operset THEN st
  ELSE
    LET recs1 == OBFillRecs(c.e, st.recs, c.bra, c.ket, oset)
        depth == nprim(c.bra) * nprim(c.ket)
        ncb == cartesian_size(c.bra)
        nck == cartesian_size(c.ket)
    IN IF c.lmax = 0
         THEN OBOperLoop(c,
                [st EXCEPT !.recs = recs1, !.contrdepth = depth,
                   !.stack = Overwrite(st.stack, 1,
                               [i \in {0} |->
                                  OBSumSeeds(Rd(st.stack, 0), c.e.type_, recs1, depth)])],
                oset + 1)
         ELSE
           LET out == OBKernel(Len(st.kern) + 1, ncb, nck)
           IN OBOperLoop(c,
                [st EXCEPT !.recs = recs1, !.contrdepth = depth,
                   !.stack = Overwrite(st.stack, ncb * nck, out),
                   !.kern = Append(st.kern,
                              OBKernelInput(c.e.type_, c.bra.l, c.ket.l, recs1, depth)),
                   !.scratch_ = IF c.use_scratch
                                  THEN OBAccumulate(st.scratch_, out, c.swap,
                                                    cartesian_size(c.s1),
                                                    cartesian_size(c.s2))
                                  ELSE st.scratch_],
                oset + 1)

\* OBFail, were the records dropped by a failing call
OBFail_reset(e, st) ==
  [eng |-> [e EXCEPT !.recs = <<>>, !.contrdepth = 0],
   status |-> st, where |-> "none", n |-> 0, kern |-> <<>>]

OBFail(e, st) ==
  [eng |-> e, status |-> st, where |-> "none", n |-> 0, kern |-> <<>>]

\* OBTform, were the columns of a result with a pure s2 only transformed as
\* rows
OBTform_rows(s1, s2, cart) ==
  IF s1.pure /\ s2.pure THEN tform(s1.l, s2.l, cart)
  ELSE IF s1.pure THEN tform_rows(s1.l, size(s2), cart)
  ELSE tform_rows(s2.l, size(s1), cart)

\* solid-harmonics step of compute: the spherical buffer
OBTform(s1, s2, cart) ==
  IF s1.pure /\ s2.pure THEN tform(s1.l, s2.l, cart)
  ELSE IF s1.pure THEN tform_rows(s1.l, size(s2), cart)
  ELSE tform_cols(size(s1), s2.l, cart)

\* the checks of compute(s1, s2), in the order they are made, and how the
\* first that fails ends the call
OBCheck(e, s1, s2) ==
  IF ~(s1.ncontr = 1 /\ s2.ncontr = 1) THEN "assert"
  ELSE IF ~OBDerivOK(e) THEN "assert"
  ELSE IF OBNoNuclei(e) THEN "throw"
  ELSE IF ~OBPrimOK(e, nprim(s1) * nprim(s2)) THEN "assert"
  ELSE IF ~OBLmaxOK(e, IF s1.l > s2.l THEN s1.l ELSE s2.l) THEN "assert"
  ELSE IF e.deriv_order_ > 0 THEN "assert"
  ELSE "ok"

\* the constants of a call: bra, ket, swap, use_scratch, lmax, num_operset
OBCtx(e, s1, s2) ==
  [e |-> e, s1 |-> s1, s2 |-> s2,
   bra |-> IF ~OBSwap(s1.l, s2.l) THEN s1 ELSE s2,
   ket |-> IF ~OBSwap(s1.l, s2.l) THEN s2 ELSE s1,
   swap |-> OBSwap(s1.l, s2.l),
   use_scratch |-> OBUseScratch(OBSwap(s1.l, s2.l), e.type_),
   lmax |-> IF s1.l > s2.l THEN s1.l ELSE s2.l,
   num_operset |-> IF e.type_ = "nuclear" THEN Len(e.q_) ELSE 1]

\* OBStart, were scratch_ not zeroed before the loop
OBStart_nozero(e, c) ==
  [recs |-> <<>>,
   contrdepth |-> e.contrdepth,
   kern |-> <<>>,
   stack |-> IF c.lmax = 0
               THEN Overwrite(AgeBuf(e.stack), 1, [i \in {0} |-> Zero])
               ELSE AgeBuf(e.stack),
   scratch_ |-> AgeBuf(e.scratch_)]

\* before the loop over operator components: primdata_[0].stack[0] = 0, or
\* the memset of scratch_
OBStart(e, c) ==
  [recs |-> <<>>,
   contrdepth |-> e.contrdepth,
   kern |-> <<>>,
   stack |-> IF c.lmax = 0
               THEN Overwrite(AgeBuf(e.stack), 1, [i \in {0} |-> Zero])
               ELSE AgeBuf(e.stack),
   scratch_ |-> IF c.lmax # 0 /\ c.use_scratch
                  THEN Overwrite(AgeBuf(e.scratch_),
                                 cartesian_size(c.s1) * cartesian_size(c.s2),
                                 [i \in 0..(cartesian_size(c.s1) * cartesian_size(c.s2) - 1)
                                    |-> Zero])
                  ELSE AgeBuf(e.scratch_)]

\* after the loop over operator components: the solid-harmonics transform,
\* and the pointer returned
OBFinish(e, c, st) ==
  LET ncart12 == cartesian_size(c.s1) * cartesian_size(c.s2)
      cart_in_scratch == c.use_scratch /\ c.lmax # 0
      cartesian_ints == IF cart_in_scratch THEN Block(st.scratch_, ncart12)
                                           ELSE Block(st.stack, ncart12)
      pure == c.s1.pure \/ c.s2.pure
      spherical_ints == OBTform(c.s1, c.s2, cartesian_ints)
      nres == size(c.s1) * size(c.s2)
      e1 == [e EXCEPT !.recs = st.recs, !.contrdepth = st.contrdepth,
                      !.stack = IF pure /\ cart_in_scratch
                                  THEN Overwrite(st.stack, nres, spherical_ints)
                                  ELSE st.stack,
                      !.scratch_ = IF pure /\ ~cart_in_scratch
                                     THEN Overwrite(st.scratch_, nres, spherical_ints)
                                     ELSE st.scratch_]
  IN [eng |-> e1, status |-> "ok",
      where |-> IF pure = cart_in_scratch THEN "stack" ELSE "scratch_",
      n |-> nres, kern |-> st.kern]

\* compute(s1, s2)
OBCompute(e, s1, s2) ==
  IF OBCheck(e, s1, s2) # "ok" THEN OBFail(e, OBCheck(e, s1, s2))
  ELSE LET c == OBCtx(e, s1, s2)
           st == OBOperLoop(c, OBStart(e, c), 0)
       IN OBFinish(e, c, st)

(***************************************************************************)
(* TwoBodyEngine<Coulomb>                                                  *)
(***************************************************************************)
\* the size initialize() gives scratch_
TBScratchSize(lmax, deriv_order) ==
  LET nc == ncart_max(lmax)
      max_shellset_size == nc * nc * nc * nc
  IN CASE deriv_order = 0 -> max_shellset_size
       [] deriv_order = 1 ->
            IF LIBINT2_DERIV_ERI_ORDER > 0 THEN 9 * max_shellset_size ELSE 0
       [] deriv_order = 2 ->
            IF LIBINT2_DERIV_ERI_ORDER > 1 THEN 45 * max_shellset_size ELSE 0
       [] OTHER -> 0

\* whether initialize() calls libint2_init_eri<deriv_order>
TBLibInit(deriv_order) ==
  deriv_order = 0 \/ (deriv_order < 3 /\ LIBINT2_DERIV_ERI_ORDER >= deriv_order)

\* the assertions of initialize()
TBInitializeOK(max_l, deriv_order) ==
  /\ max_l <= LIBINT2_MAX_AM_ERI
  /\ deriv_order <= LIBINT2_DERIV_ONEBODY_ORDER
  /\ deriv_order < 3

\* the kernel kinds (MultiplicativeSphericalTwoBodyKernel)
TBKinds == {"Coulomb", "cGTG", "cGTG_times_Coulomb", "DelcGTG_square"}

\* the core-integral parameter derived from terms b and k of a geminal, a
\* sequence of <<exponent, coefficient>> pairs
CorePair(oparams, b, k) ==
  LET gexp == oparams[b + 1][1] + oparams[k + 1][1]
      gcoeff == oparams[b + 1][2] * oparams[k + 1][2] * (IF b = k THEN 1 ELSE 2)
      gcoeff_rescaled == 4 * oparams[b + 1][1] * oparams[k + 1][1] * gcoeff
  IN <<gexp, gcoeff_rescaled>>

\* the inner loop: for(k = 0; k <= b; ++k) push_back
RECURSIVE CoreRow(_, _, _)
CoreRow(oparams, b, k) ==
  IF k < 0 THEN <<>>
  ELSE Append(CoreRow(oparams, b, k - 1), CorePair(oparams, b, k))

\* the outer loop: for(b = 0; b < ng; ++b)
RECURSIVE CoreRows(_, _)
CoreRows(oparams, b) ==
  IF b < 0 THEN <<>>
  ELSE CoreRows(oparams, b - 1) \o CoreRow(oparams, b, b)

\* init_core_ints_params(oparams): what it makes of an empty
\* core_ints_params_
init_core_ints_params(kind, oparams) ==
  IF kind = "DelcGTG_square" THEN CoreRows(oparams, Len(oparams) - 1)
  ELSE oparams

\* the order core_eval_type::instance is asked for
TBCoreOrder(max_l, deriv_order) == 4 * max_l + deriv_order

\* TwoBodyEngine<Kernel>(max_nprim, max_l, deriv_order, oparams); fm_max is
\* the order core_eval_ was made for
TBConstructK(kind, max_nprim, max_l, deriv_order, oparams) ==
  [type_ |-> "eri",
   kind |-> kind,
   fm_max |-> TBCoreOrder(max_l, deriv_order),
   core_ints_params_ |-> init_core_ints_params(kind, oparams),
   nprimdata |-> max_nprim * max_nprim * max_nprim * max_nprim,
   lmax_ |-> max_l,
   deriv_order_ |-> deriv_order,
   recs |-> <<>>,
   contrdepth |-> 0,
   stack |-> NewBuf(IF TBLibInit(deriv_order)
                      THEN ncart_max(max_l) * ncart_max(max_l)
                             * ncart_max(max_l) * ncart_max(max_l)
                      ELSE 0, "stale"),
   scratch_ |-> NewBuf(TBScratchSize(max_l, deriv_order), "zero")]

\* TwoBodyEngine<Coulomb>(max_nprim, max_l, deriv_order)
TBConstruct(max_nprim, max_l, deriv_order) ==
  TBConstructK("Coulomb", max_nprim, max_l, deriv_order, <<>>)

\* compute_primdata: the record of the primitives p of the canonical shells
\* s.  P = gP / gammap, Q = gQ / gammaq, PQ2 = PQ2num / (gammap gammaq)^2;
\* the prefactor and T are symmetric in the pairs (0, 1) and (2, 3).  The
\* kernels other than Coulomb evaluate the core integral with
\* core_ints_params_.  The call returns after the core integrals when
\* mmax = amtot + deriv_order_ is 0: the geometric fields of the record old
\* stay as they are.
TBPrimData(e, old, s, p) ==
  LET al == Eager([k \in 1..4 |-> s[k].alpha[p[k] + 1]])
      co == Eager([k \in 1..4 |-> s[k].coeff[p[k] + 1]])
      gammap == al[1] + al[2]
      gammaq == al[3] + al[4]
      gP == Eager([x \in 1..3 |-> al[1] * s[1].O[x] + al[2] * s[2].O[x]])
      gQ == Eager([x \in 1..3 |-> al[3] * s[3].O[x] + al[4] * s[4].O[x]])
      AB2 == Dist2(s[1].O, s[2].O)
      CD2 == Dist2(s[3].O, s[4].O)
      PQ2num == Dist2(Eager([x \in 1..3 |-> gammaq * gP[x]]), Eager([x \in 1..3 |-> gammap * gQ[x]]))
      amtot == s[1].l + s[2].l + s[3].l + s[4].l
  IN [geom |-> IF amtot + e.deriv_order_ = 0 THEN old.geom
                ELSE Eager([k \in 1..4 |-> <<s[k].O, al[k]>>]),
      SS_EREP_SS |-> <<{<<gammap, al[1] * al[2], AB2>>, <<gammaq, al[3] * al[4], CD2>>},
                       PQ2num, co[1] * co[2] * co[3] * co[4], amtot + e.deriv_order_,
                       IF e.kind = "Coulomb" THEN <<>> ELSE e.core_ints_params_>>]

TBSwapBra(l1, l2) == l1 < l2

TBSwapKet(l3, l4) == l3 < l4

\* TBSwapBraket, were bra and ket exchanged when the ket is the heavier
TBSwapBraket_lt(l1, l2, l3, l4) == l1 + l2 < l3 + l4

TBSwapBraket(l1, l2, l3, l4) == l1 + l2 > l3 + l4

\* bra1, bra2, ket1, ket2
TBCanonical(t, swap_bra, swap_ket, swap_braket) ==
  <<IF swap_braket THEN (IF swap_ket THEN t[4] ELSE t[3])
                   ELSE (IF swap_bra THEN t[2] ELSE t[1]),
    IF swap_braket THEN (IF swap_ket THEN t[3] ELSE t[4])
                   ELSE (IF swap_bra THEN t[1] ELSE t[2]),
    IF swap_braket THEN (IF swap_bra THEN t[2] ELSE t[1])
                   ELSE (IF swap_ket THEN t[4] ELSE t[3]),
    IF swap_braket THEN (IF swap_bra THEN t[1] ELSE t[2])
                   ELSE (IF swap_ket THEN t[3] ELSE t[4])>>

\* TBDerivOK, were the derivative order not looked at
TBDerivOK_off(e) == TRUE

TBDerivOK(e) == e.deriv_order_ = 0

TBLmaxOK(e, lmax) == lmax <= e.lmax_

\* the primitive loop: record p is the p-th primitive quadruple
TBFillRecs(e, s, nquads) ==
  LET n2 == nprim(s[2])
      n3 == nprim(s[3])
      n4 == nprim(s[4])
  IN Eager([k \in 1..nquads |->
       TBPrimData(e, RdRec(e.recs, k - 1), s,
                  <<(k - 1) \div (n2 * n3 * n4), ((k - 1) \div (n3 * n4)) % n2,
                    ((k - 1) \div n4) % n3, (k - 1) % n4>>)])

\* the (ss|ss) shortcut
RECURSIVE TBSumSeeds(_, _, _)
TBSumSeeds(acc, recs, n) ==
  IF n = 0 THEN acc
  ELSE Plus(TBSumSeeds(acc, recs, n - 1),
            One(<<"seed", "eri", RdRec(recs, n - 1).SS_EREP_SS>>))

\* libint2_build_eri[l1][l2][l3][l4](&primdata_[0]) writes a Cartesian block
TBKernel(n, nc) ==
  Eager([i \in 0..(nc[1] * nc[2] * nc[3] * nc[4] - 1) |->
     One(<<"K", n, <<<<"c", i \div (nc[2] * nc[3] * nc[4])>>,
                     <<"c", (i \div (nc[3] * nc[4])) % nc[2]>>,
                     <<"c", (i \div nc[4]) % nc[3]>>,
                     <<"c", i % nc[4]>>>>>>)])

TBKernelInput(s, recs, depth) ==
  [fam |-> "eri", l |-> Eager([k \in 1..4 |-> s[k].l]),
   recs |-> Eager([k \in 1..depth |-> RdRec(recs, k - 1)])]

\* TBPass, were the two buffers not exchanged after a transform
TBPass_noswap(st, pure, nouter, l, ninner) ==
  IF ~pure THEN st
  ELSE
    LET nc == ((l + 1) * (l + 2)) \div 2
        src == Block(st[st.mainbuf], nouter * nc * ninner)
        out == TransformAxis(src, nouter, l, ninner)
    IN [st EXCEPT ![st.scratchbuf] =
                    Overwrite(st[st.scratchbuf], nouter * (2 * l + 1) * ninner, out)]

\* one solid-harmonics pass: mainbuf -> scratchbuf, then std::swap
TBPass(st, pure, nouter, l, ninner) ==
  IF ~pure THEN st
  ELSE
    LET nc == ((l + 1) * (l + 2)) \div 2
        src == Block(st[st.mainbuf], nouter * nc * ninner)
        out == TransformAxis(src, nouter, l, ninner)
    IN [st EXCEPT ![st.scratchbuf] =
                    Overwrite(st[st.scratchbuf], nouter * (2 * l + 1) * ninner, out),
                  !.mainbuf = st.scratchbuf,
                  !.scratchbuf = st.mainbuf]

\* TBTgtOffset, were swap_ket ignored in the target column
TBTgtOffset_col(c, r1, r2, c1, c2) ==
  IF c.swap_braket
    THEN LET tgt_col_idx == r1 * c.nr[2] + r2
             a == IF c.swap_bra THEN c2 ELSE c1
             b == IF c.swap_bra THEN c1 ELSE c2
         IN tgt_col_idx + a * (c.ntgt[2] * c.ntgt[3] * c.ntgt[4])
              + b * (c.ntgt[3] * c.ntgt[4])
    ELSE LET tgt_row_idx == IF ~c.swap_bra THEN r1 * c.nr[2] + r2 ELSE r2 * c.nr[1] + r1
             a == IF c.swap_ket THEN c2 ELSE c1
             b == IF c.swap_ket THEN c1 ELSE c2
         IN tgt_row_idx * (c.nr[3] * c.nr[4]) + a * c.ntgt[4] + b

\* TBTgtOffset, were the block of a swapped ket not transposed
TBTgtOffset_ket(c, r1, r2, c1, c2) ==
  IF c.swap_braket
    THEN LET tgt_col_idx == IF ~c.swap_ket THEN r1 * c.nr[2] + r2 ELSE r2 * c.nr[1] + r1
             a == IF c.swap_bra THEN c2 ELSE c1
             b == IF c.swap_bra THEN c1 ELSE c2
         IN tgt_col_idx + a * (c.ntgt[2] * c.ntgt[3] * c.ntgt[4])
              + b * (c.ntgt[3] * c.ntgt[4])
    ELSE LET tgt_row_idx == IF ~c.swap_bra THEN r1 * c.nr[2] + r2 ELSE r2 * c.nr[1] + r1
         IN tgt_row_idx * (c.nr[3] * c.nr[4]) + c1 * c.ntgt[4] + c2

\* TBTgtOffset, were the block of a swapped bra not transposed when bra and
\* ket are exchanged
TBTgtOffset_bra(c, r1, r2, c1, c2) ==
  IF c.swap_braket
    THEN LET tgt_col_idx == IF ~c.swap_ket THEN r1 * c.nr[2] + r2 ELSE r2 * c.nr[1] + r1
         IN tgt_col_idx + c1 * (c.ntgt[2] * c.ntgt[3] * c.ntgt[4])
              + c2 * (c.ntgt[3] * c.ntgt[4])
    ELSE LET tgt_row_idx == IF ~c.swap_bra THEN r1 * c.nr[2] + r2 ELSE r2 * c.nr[1] + r1
             a == IF c.swap_ket THEN c2 ELSE c1
             b == IF c.swap_ket THEN c1 ELSE c2
         IN tgt_row_idx * (c.nr[3] * c.nr[4]) + a * c.ntgt[4] + b

\* where element (c1, c2) of the block of source row (r1, r2) is copied to
TBTgtOffset(c, r1, r2, c1, c2) ==
  IF c.swap_braket
    THEN LET tgt_col_idx == IF ~c.swap_ket THEN r1 * c.nr[2] + r2 ELSE r2 * c.nr[1] + r1
             a == IF c.swap_bra THEN c2 ELSE c1
             b == IF c.swap_bra THEN c1 ELSE c2
         IN tgt_col_idx + a * (c.ntgt[2] * c.ntgt[3] * c.ntgt[4])
              + b * (c.ntgt[3] * c.ntgt[4])
    ELSE LET tgt_row_idx == IF ~c.swap_bra THEN r1 * c.nr[2] + r2 ELSE r2 * c.nr[1] + r1
             a == IF c.swap_ket THEN c2 ELSE c1
             b == IF c.swap_ket THEN c1 ELSE c2
         IN tgt_row_idx * (c.nr[3] * c.nr[4]) + a * c.ntgt[4] + b

\* the copies of the first m elements of source row r (row-major r1, r2)
RECURSIVE TBCopyBlock(_, _, _, _)
TBCopyBlock(c, src, r, m) ==
  IF m = 0 THEN <<>>
  ELSE LET ncol == c.nr[3] * c.nr[4]
           k == m - 1
       IN (TBTgtOffset(c, r \div c.nr[2], r % c.nr[2], k \div c.nr[4], k % c.nr[4])
             :> src[r * ncol + k])
          @@ TBCopyBlock(c, src, r, k)

\* the loop over the first m rows of the source matrix
RECURSIVE TBCopyRows(_, _, _)
TBCopyRows(c, src, m) ==
  IF m = 0 THEN <<>>
  ELSE TBCopyBlock(c, src, m - 1, c.nr[3] * c.nr[4]) @@ TBCopyRows(c, src, m - 1)

\* the largest element of a non-empty set of numbers
SetMax(S) == CHOOSE x \in S : \A y \in S : y <= x

\* write w[i] to element i of a buffer, for the i in the domain of w; n is the
\* number of elements the caller expects the highest of them below
WriteAt(b, w, n) ==
  LET dom == DOMAIN w
      top == IF \A i \in dom : i < n THEN n - 1 ELSE SetMax(dom)
      m == IF top < Len(b.d) THEN Len(b.d) - 1 ELSE top
  IN [b EXCEPT !.d = Eager([k \in 1..(m + 1) |->
                       IF (k - 1) \in dom THEN w[k - 1] ELSE Rd(b, k - 1)])]

\* the solid-harmonics passes over the first k axes (bra1, bra2, ket1, ket2):
\* the axes before axis k are transformed already, those after it Cartesian
RECURSIVE TBPasses(_, _, _)
TBPasses(c, st0, k) ==
  IF k = 0 THEN st0
  ELSE TBPass(TBPasses(c, st0, k - 1), c.s[k].pure,
              CASE k = 1 -> 1
                [] k = 2 -> c.nr[1]
                [] k = 3 -> c.nr[1] * c.nr[2]
                [] OTHER -> c.nr[1] * c.nr[2] * c.nr[3],
              c.s[k].l,
              CASE k = 1 -> c.nc[2] * c.nc[3] * c.nc[4]
                [] k = 2 -> c.nc[3] * c.nc[4]
                [] k = 3 -> c.nc[4]
                [] OTHER -> 1)

\* transform to solid harmonics first, then unpermute
TBUnpermute(c, st0) ==
  LET st4 == TBPasses(c, st0, 4)
      n == c.nr[1] * c.nr[2] * c.nr[3] * c.nr[4]
      w == TBCopyRows(c, Block(st4[st4.mainbuf], n), c.nr[1] * c.nr[2])
  IN [st4 EXCEPT ![st4.scratchbuf] = WriteAt(st4[st4.scratchbuf], w, n)]

TBFail(e, st) ==
  [eng |-> e, status |-> st, where |-> "none", n |-> 0, kern |-> <<>>, nrecs |-> 0]

\* the constants of a call on the shells t: the canonical shells s, the
\* swaps, the sizes
TBCtx(t) ==
  LET swap_bra == TBSwapBra(t[1].l, t[2].l)
      swap_ket == TBSwapKet(t[3].l, t[4].l)
      swap_braket == TBSwapBraket(t[1].l, t[2].l, t[3].l, t[4].l)
      s == TBCanonical(t, swap_bra, swap_ket, swap_braket)
  IN [s |-> s, swap_bra |-> swap_bra, swap_ket |-> swap_ket,
      swap_braket |-> swap_braket,
      use_scratch |-> swap_braket \/ swap_bra \/ swap_ket \/ (\E k \in 1..4 : t[k].pure),
      nquads |-> nprim(s[1]) * nprim(s[2]) * nprim(s[3]) * nprim(s[4]),
      lmax |-> SetMax({s[k].l : k \in 1..4}),
      ntot |-> size(t[1]) * size(t[2]) * size(t[3]) * size(t[4]),
      nr |-> Eager([k \in 1..4 |-> size(s[k])]),
      nc |-> Eager([k \in 1..4 |-> cartesian_size(s[k])]),
      ntgt |-> Eager([k \in 1..4 |-> size(t[k])])]

\* the checks of compute, in the order they are made, and how the call ends:
\* "ub" if primdata_[p] is written for p >= primdata_.size()
TBCheck(e, t) ==
  IF ~(\A k \in 1..4 : t[k].ncontr = 1) THEN "assert"
  ELSE IF ~TBDerivOK(e) THEN "assert"
  ELSE IF ~TBLmaxOK(e, SetMax({t[k].l : k \in 1..4})) THEN "assert"
  ELSE IF nprim(t[1]) * nprim(t[2]) * nprim(t[3]) * nprim(t[4]) > e.nprimdata THEN "ub"
  ELSE "ok"

\* primdata_[0].stack[0] = 0 if lmax == 0, and the primitive loop
TBStart(e, c) ==
  [e EXCEPT !.recs = TBFillRecs(e, c.s, c.nquads),
            !.contrdepth = c.nquads,
            !.stack = IF c.lmax = 0
                        THEN Overwrite(AgeBuf(e.stack), 1, [i \in {0} |-> Zero])
                        ELSE AgeBuf(e.stack),
            !.scratch_ = AgeBuf(e.scratch_)]

\* the (ss|ss) shortcut, or the kernel
TBBuild(e, c) ==
  [e EXCEPT !.stack =
     IF c.lmax = 0
       THEN Overwrite(e.stack, 1,
                      [i \in {0} |-> TBSumSeeds(Rd(e.stack, 0), e.recs, c.nquads)])
       ELSE Overwrite(e.stack, c.nc[1] * c.nc[2] * c.nc[3] * c.nc[4], TBKernel(1, c.nc))]

\* the solid-harmonics passes and the un-permutation, and the pointer returned
TBFinish(e, c) ==
  IF c.lmax = 0
    THEN [eng |-> e, status |-> "ok", where |-> "stack", n |-> c.ntot,
          kern |-> <<>>, nrecs |-> c.nquads]
    ELSE
      LET st0 == [stack |-> e.stack, scratch_ |-> e.scratch_,
                  mainbuf |-> "stack", scratchbuf |-> "scratch_"]
          st == IF c.use_scratch THEN TBUnpermute(c, st0) ELSE st0
      IN [eng |-> [e EXCEPT !.stack = st.stack, !.scratch_ = st.scratch_],
          status |-> "ok",
          where |-> IF c.use_scratch THEN st.scratchbuf ELSE "stack",
          n |-> c.ntot,
          kern |-> <<TBKernelInput(c.s, e.recs, c.nquads)>>,
          nrecs |-> c.nquads]

\* compute(tbra1, tbra2, tket1, tket2), t the four shells
TBCompute(e, t) ==
  IF TBCheck(e, t) = "assert" THEN TBFail(e, "assert")
  ELSE IF TBCheck(e, t) = "ub"
    THEN [TBFail([e EXCEPT !.recs = TBFillRecs(e, TBCtx(t).s, TBCtx(t).nquads),
                           !.stack = AgeBuf(e.stack),
                           !.scratch_ = AgeBuf(e.scratch_)], "ub")
            EXCEPT !.nrecs = TBCtx(t).nquads]
  ELSE LET c == TBCtx(t)
       IN TBFinish(TBBuild(TBStart(e, c), c), c)

(***************************************************************************)
(* The one-body state machine: an engine, and the calls made on it.  A     *)
(* failed assertion aborts the process: no call follows it.  The exception *)
(* of the missing nuclei is caught by the caller, who goes on.             *)
(***************************************************************************)
NucleiPool == <<<<1, <<0, 0, 0>>>>, <<2, <<1, 1, 1>>>>, <<1, <<0, 0, 3>>>>>>

\* the charge lists set_q is called with
QLists == {SubSeq(NucleiPool, 1, n) : n \in 0..MaxNuclei}

\* no run with several engines
LifeIdle == es = <<>> /\ mem = <<>> /\ lcall = <<>> /\ res = <<>> /\ pc = <<>>

\* the last call made on an engine, and what the caller got; q is the list
\* the last set_q call was given, qprev the list of the set_q call before it
NoCall ==
  [op |-> "none", s1 |-> 0, s2 |-> 0, s3 |-> 0, s4 |-> 0, status |-> "none",
   where |-> "none", n |-> 0, kern |-> <<>>, nrecs |-> 0, q |-> <<>>,
   qprev |-> <<>>]

InitOB ==
  /\ basis \in OBBases
  /\ \E t \in OBTypes, N \in 1..MaxNprim, L \in 1..MaxL, d \in 0..MaxDeriv :
       /\ OBInitializeOK(t, L, d)
       /\ ob = OBConstruct(t, N, L, d)
  /\ obcall = NoCall
  /\ tb = NoEngine
  /\ tbcall = NoCall
  /\ LifeIdle

OBSetQAct ==
  /\ ob # NoEngine
  /\ obcall.status # "assert"
  /\ \E q \in QLists :
       /\ ob' = OBSetQ(ob, q)
       /\ obcall' = [NoCall EXCEPT !.op = "set_q", !.q = q, !.qprev = obcall.q]
  /\ UNCHANGED <<basis, tb, tbcall>>
  /\ UNCHANGED lifevars

OBComputeAct ==
  /\ ob # NoEngine
  /\ obcall.status # "assert"
  /\ \E i1 \in basis, i2 \in basis :
       \E r \in {OBCompute(ob, ShellTable[i1], ShellTable[i2])} :
          /\ ob' = r.eng
          /\ obcall' = [NoCall EXCEPT !.op = "compute", !.s1 = i1, !.s2 = i2,
                                      !.status = r.status, !.where = r.where,
                                      !.n = r.n, !.kern = r.kern,
                                      !.nrecs = r.eng.contrdepth,
                                      !.q = obcall.q, !.qprev = obcall.qprev]
  /\ UNCHANGED <<basis, tb, tbcall>>
  /\ UNCHANGED lifevars

NextOB == OBSetQAct \/ OBComputeAct

SpecOB == InitOB /\ [][NextOB]_vars

\* element i of the buffer the last compute call returned a pointer to
OBResult(i) == Rd(ob[obcall.where], i)

(***************************************************************************)
(* The two-body state machine.  A call that writes records past the end of *)
(* primdata_ has undefined behaviour: the process is killed or the call    *)
(* returns, with memory the engine does not own overwritten; nothing is    *)
(* known of the engine afterwards, and no further call is followed.        *)
(***************************************************************************)
InitTB ==
  /\ basis = {q[k] : q \in TBQuartets, k \in 1..4}
  /\ \E N \in 1..MaxNprim, L \in 1..MaxL, d \in 0..MaxDeriv :
       /\ TBInitializeOK(L, d)
       /\ tb = TBConstruct(N, L, d)
  /\ tbcall = NoCall
  /\ ob = NoEngine
  /\ obcall = NoCall
  /\ LifeIdle

TBComputeAct ==
  /\ tb # NoEngine
  /\ tbcall.status \notin {"assert", "ub_crash", "ub_return"}
  /\ \E q \in TBQuartets :
       \E r \in {TBCompute(tb, <<ShellTable[q[1]], ShellTable[q[2]],
                                   ShellTable[q[3]], ShellTable[q[4]]>>)} :
          /\ tb' = r.eng
          /\ \E o \in IF r.status = "ub" THEN {"ub_crash", "ub_return"}
                                         ELSE {r.status} :
               tbcall' = [op |-> "compute", s1 |-> q[1], s2 |-> q[2], s3 |-> q[3],
                          s4 |-> q[4], status |-> o, where |-> r.where, n |-> r.n,
                          kern |-> r.kern, nrecs |-> r.nrecs]
  /\ UNCHANGED <<basis, ob, obcall>>
  /\ UNCHANGED lifevars

NextTB == TBComputeAct

SpecTB == InitTB /\ [][NextTB]_vars

\* element i of the buffer the last compute call returned a pointer to
TBResult(i) == Rd(tb[tbcall.where], i)

(***************************************************************************)
(* Both engines                                                            *)
(***************************************************************************)
Init == InitOB \/ InitTB

Next == NextOB \/ NextTB

Spec == Init /\ [][Next]_vars

(***************************************************************************)
(* Several engines.  An engine object holds its std::vector members        *)
(* (primdata_, scratch_) by the storage they own: mem is the heap, es the  *)
(* engine objects of the run, 0 the storage of an empty vector.            *)
(* primdata_[0].stack points to the memory libint2_init_* acquired, which  *)
(* libint2_cleanup_* releases.                                             *)
(***************************************************************************)
Slots == 1..2

MaxObjs == 6       \* nothing is allocated beyond MaxObjs heap objects

\* a heap object: the storage of primdata_ ("vec"), the memory of a library
\* handle ("lib"), the storage of scratch_ ("scr")
HeapObj(kind, n, stack, buf) ==
  [kind |-> kind, live |-> TRUE, size |-> n, recs |-> <<>>, contrdepth |-> 0,
   stack |-> stack, buf |-> buf, cleanups |-> 0]

NoObject == [cls |-> "none"]

NoRes == [buf |-> 0, n |-> 0, val |-> <<>>]

NoPc == [phase |-> "idle"]

\* whether initialize() calls libint2_init_<type><deriv_order>
OBLibInit(t, deriv_order) ==
  /\ t \in OBTypes
  /\ deriv_order = 0 \/ (deriv_order < 3 /\ LIBINT2_DERIV_ONEBODY_ORDER >= deriv_order)

\* the members of an engine, the vectors by their storage.  oparams is the
\* geminal the engine was constructed from: not a member, kept to state
\* properties.
EngObj(cls, e, oparams, vec, scr) ==
  [cls |-> cls,
   type_ |-> e.type_,
   kind |-> IF cls = "TB" THEN e.kind ELSE "none",
   core_ints_params_ |-> IF cls = "TB" THEN e.core_ints_params_ ELSE <<>>,
   oparams |-> oparams,
   lmax_ |-> e.lmax_,
   deriv_order_ |-> e.deriv_order_,
   q_ |-> IF cls = "OB" THEN e.q_ ELSE <<>>,
   fm_max |-> e.fm_max,
   primdata_ |-> vec,
   scratch_ |-> scr]

\* the engine object a constructor makes of the engine e, on the heap m
LNew(m, cls, e, oparams) ==
  LET haslib == IF cls = "OB" THEN OBLibInit(e.type_, e.deriv_order_)
                              ELSE TBLibInit(e.deriv_order_)
      v == Len(m) + 1
      h == IF haslib THEN v + 1 ELSE 0
      s == IF haslib THEN v + 2 ELSE v + 1
  IN [obj |-> EngObj(cls, e, oparams, v, s),
      mem |-> m \o <<[HeapObj("vec", e.nprimdata, h, NewBuf(0, "stale"))
                        EXCEPT !.recs = e.recs, !.contrdepth = e.contrdepth]>>
                \o (IF haslib THEN <<HeapObj("lib", 0, 0, e.stack)>> ELSE <<>>)
                \o <<HeapObj("scr", 0, 0, e.scratch_)>>]

\* the handle primdata_[0].stack of an engine object, 0 if it has none
LHandle(o, m) == IF o.primdata_ = 0 THEN 0 ELSE m[o.primdata_].stack

\* the engine an engine object and the storage it points to make up
LLoad(o, m) ==
  [type_ |-> o.type_,
   kind |-> o.kind,
   core_ints_params_ |-> o.core_ints_params_,
   nprimdata |-> IF o.primdata_ = 0 THEN 0 ELSE m[o.primdata_].size,
   lmax_ |-> o.lmax_,
   deriv_order_ |-> o.deriv_order_,
   q_ |-> o.q_,
   fm_max |-> o.fm_max,
   recs |-> IF o.primdata_ = 0 THEN <<>> ELSE m[o.primdata_].recs,
   contrdepth |-> IF o.primdata_ = 0 THEN 0 ELSE m[o.primdata_].contrdepth,
   stack |-> IF LHandle(o, m) = 0 THEN NewBuf(0, "stale") ELSE m[LHandle(o, m)].buf,
   scratch_ |-> IF o.scratch_ = 0 THEN NewBuf(0, "zero") ELSE m[o.scratch_].buf]

\* the heap after the engine object o has written what makes e1 of it
LStore(o, m, e1) ==
  Eager([i \in 1..Len(m) |->
     IF i = o.primdata_
       THEN [m[i] EXCEPT !.recs = e1.recs, !.contrdepth = e1.contrdepth]
     ELSE IF i = LHandle(o, m) THEN [m[i] EXCEPT !.buf = e1.stack]
     ELSE IF i = o.scratch_ THEN [m[i] EXCEPT !.buf = e1.scratch_]
     ELSE m[i]])

\* a usable engine has records
LUsable(o) == o.cls \in {"OB", "TB"} /\ o.primdata_ # 0

\* OneBodyEngine(): type_(_invalid), primdata_(), lmax_(-1); deriv_order_ is
\* not initialized, garbage is what it holds
OBDefault(garbage) ==
  [cls |-> "OB", type_ |-> "_invalid", kind |-> "none", core_ints_params_ |-> <<>>,
   oparams |-> <<>>, lmax_ |-> -1, deriv_order_ |-> garbage, q_ |-> <<>>,
   fm_max |-> -1, primdata_ |-> 0, scratch_ |-> 0]

\* TwoBodyEngine(): primdata_(), lmax_(-1), core_eval_(0); deriv_order_ is
\* not initialized
TBDefault(kind, garbage) ==
  [cls |-> "TB", type_ |-> "eri", kind |-> kind, core_ints_params_ |-> <<>>,
   oparams |-> <<>>, lmax_ |-> -1, deriv_order_ |-> garbage, q_ |-> <<>>,
   fm_max |-> -1, primdata_ |-> 0, scratch_ |-> 0]

\* OneBodyEngine(const OneBodyEngine& other): the engine before it is used
OBCopy(e) ==
  [OBConstruct(e.type_, 1, e.lmax_, e.deriv_order_)
     EXCEPT !.nprimdata = e.nprimdata, !.q_ = e.q_, !.fm_max = e.fm_max]

\* TBCopy, were the core-integral parameters derived again from those of the
\* engine copied from
TBCopy_again(e) ==
  [TBConstructK(e.kind, 1, e.lmax_, e.deriv_order_, e.core_ints_params_)
     EXCEPT !.nprimdata = e.nprimdata, !.recs = e.recs, !.contrdepth = e.contrdepth,
            !.fm_max = e.fm_max]

\* TwoBodyEngine(const TwoBodyEngine& other): the records are copied, the
\* core-integral parameters and core_eval_ are copied as they are
TBCopy(e) ==
  [TBConstructK(e.kind, 1, e.lmax_, e.deriv_order_, <<>>)
     EXCEPT !.nprimdata = e.nprimdata, !.core_ints_params_ = e.core_ints_params_,
            !.recs = e.recs, !.contrdepth = e.contrdepth, !.fm_max = e.fm_max]

\* LCopyScratch, were scratch_ shared with the engine copied from
LCopyScratch_shared(own, others) == others

\* the storage of the scratch_ of a copy: its own (initialize() resizes the
\* scratch_ of the copy, which the copy constructor does not initialize
\* from other.scratch_)
LCopyScratch(own, others) == own

\* LCopyHandle, were the handle copied with the records kept
LCopyHandle_shared(own, others) == others

\* the handle of a copy: its own (initialize() calls libint2_init_* on the
\* primdata_ of the copy, whatever primdata_[0].stack was copied from other)
LCopyHandle(own, others) == own

\* Engine b(a): the engine object b, and the heap, a being the object o
LCopied(m, o) ==
  LET r == LNew(m, o.cls,
                IF o.cls = "OB" THEN OBCopy(LLoad(o, m)) ELSE TBCopy(LLoad(o, m)),
                o.oparams)
  IN [obj |-> [r.obj EXCEPT !.scratch_ = LCopyScratch(@, o.scratch_)],
      mem |-> [r.mem EXCEPT ![r.obj.primdata_].stack = LCopyHandle(@, LHandle(o, m))]]

\* the moved-from engine a defaulted move constructor leaves: the vectors and
\* the shared pointer are empty, the other members are as they were
LMovedFrom(o) ==
  [o EXCEPT !.primdata_ = 0, !.scratch_ = 0, !.q_ = <<>>, !.fm_max = -1,
            !.core_ints_params_ = <<>>]

\* whether finalize() calls libint2_cleanup_* on an engine with records
LCleanup(o) ==
  IF o.cls = "OB"
    THEN /\ o.type_ \in OBTypes
         /\ o.deriv_order_ = 0
              \/ (o.deriv_order_ < 3 /\ LIBINT2_DERIV_ONEBODY_ORDER >= o.deriv_order_)
    ELSE o.deriv_order_ = 0
           \/ (o.deriv_order_ < 3 /\ LIBINT2_DERIV_ERI_ORDER >= o.deriv_order_)

\* the number of libint2_cleanup_* calls of finalize()
LFinalizeCalls(o) == IF o.primdata_ # 0 /\ LCleanup(o) THEN 1 ELSE 0

\* storage that has been released: nothing is known of what it holds
Freed(x) ==
  [x EXCEPT !.live = FALSE, !.recs = <<>>, !.contrdepth = 0,
            !.buf = NewBuf(0, "stale")]

\* the heap after ~Engine(): finalize(), then the members are destroyed
LDestroyMem(o, m) ==
  Eager([i \in 1..Len(m) |->
     IF i = LHandle(o, m) /\ LFinalizeCalls(o) = 1
       THEN [Freed(m[i]) EXCEPT !.cleanups = @ + 1]
     ELSE IF i = o.primdata_ \/ i = o.scratch_ THEN Freed(m[i])
     ELSE m[i]])

\* the geminals engines are constructed from: <<exponent, coefficient>> terms
GeminalPool == <<<<1, 1>>, <<1, 2>>, <<2, 3>>, <<3, 1>>>>

MaxGeminal == 3    \* a geminal has at most MaxGeminal terms

Geminals == {SubSeq(GeminalPool, 1, n) : n \in 1..MaxGeminal}

\* the constructor calls of a run with several engines:
\* <<class, type or kernel, max_nprim, max_l, deriv_order, oparams>>
LifeConfigs ==
  {<<"OB", t, MaxNprim, L, d, <<>>>> : t \in OBTypes, L \in 1..MaxL, d \in 0..MaxDeriv}
    \cup {<<"TB", "Coulomb", MaxNprim, L, d, <<>>>> : L \in 1..MaxL, d \in 0..MaxDeriv}
    \cup {<<"TB", "DelcGTG_square", 1, 1, 0, g>> : g \in Geminals}
    \cup {<<"TB", "cGTG", 1, 1, 0, SubSeq(GeminalPool, 1, 2)>>}

\* the assertions of the constructor call a
LConstructOK(a) ==
  IF a[1] = "OB" THEN OBInitializeOK(a[2], a[4], a[5]) ELSE TBInitializeOK(a[4], a[5])

\* the engine the constructor call a makes
LConstruct(a) ==
  IF a[1] = "OB" THEN OBConstruct(a[2], a[3], a[4], a[5])
                 ELSE TBConstructK(a[2], a[3], a[4], a[5], a[6])

LCall(op, slot, src, status) ==
  [op |-> op, slot |-> slot, src |-> src, status |-> status, where |-> "none",
   n |-> 0, kern |-> <<>>, cleaned |-> 0, args |-> <<>>, s |-> <<>>]

\* the shells a run with several engines calls compute with
LifePairs == {<<1, 1>>, <<1, 4>>, <<2, 1>>}

LifeQuartets == {<<1, 1, 1, 1>>, <<1, 4, 1, 1>>}

InitLife ==
  /\ basis = {1, 2, 4}
  /\ ob = NoEngine
  /\ obcall = NoCall
  /\ tb = NoEngine
  /\ tbcall = NoCall
  /\ res = [s \in Slots |-> NoRes]
  /\ pc = [s \in Slots |-> NoPc]
  /\ \E a \in LifeConfigs :
       IF LConstructOK(a)
         THEN \E r \in {LNew(<<>>, a[1], LConstruct(a), a[6])} :
                /\ es = [s \in Slots |-> IF s = 1 THEN r.obj ELSE NoObject]
                /\ mem = r.mem
                /\ lcall = [LCall("construct", 1, 0, "ok") EXCEPT !.args = a]
         ELSE /\ es = [s \in Slots |-> NoObject]
              /\ mem = <<>>
              /\ lcall = [LCall("construct", 1, 0, "assert") EXCEPT !.args = a]

\* no call follows a failed assertion or undefined behaviour
LRunning == lcall.status \notin {"assert", "ub_crash", "ub_return"}

\* Engine e;
LDefaultAct ==
  /\ LRunning
  /\ \E s \in Slots, garbage \in {0, MaxDeriv} :
       /\ es[s].cls = "none"
       /\ \E o \in {OBDefault(garbage)}
                    \cup {TBDefault(k, garbage) : k \in {"Coulomb", "DelcGTG_square"}} :
            es' = [es EXCEPT ![s] = o]
       /\ lcall' = LCall("default", s, 0, "ok")
  /\ UNCHANGED <<basis, ob, obcall, tb, tbcall, mem, res, pc>>

\* Engine b(a);
LCopyAct ==
  /\ LRunning
  /\ Len(mem) + 3 <= MaxObjs
  /\ \E a \in Slots, b \in Slots :
       /\ LUsable(es[a])
       /\ es[b].cls = "none"
       /\ \E r \in {LCopied(mem, es[a])} :
            /\ es' = [es EXCEPT ![b] = r.obj]
            /\ mem' = r.mem
       /\ lcall' = LCall("copy", b, a, "ok")
  /\ UNCHANGED <<basis, ob, obcall, tb, tbcall, res, pc>>

\* Engine b(std::move(a));
LMoveAct ==
  /\ LRunning
  /\ \E a \in Slots, b \in Slots :
       /\ es[a].cls # "none"
       /\ es[b].cls = "none"
       /\ es' = [es EXCEPT ![b] = es[a], ![a] = LMovedFrom(es[a])]
       /\ res' = [res EXCEPT ![a] = NoRes, ![b] = NoRes]
       /\ lcall' = [LCall("move", b, a, "ok") EXCEPT
                      !.args = <<LUsable(es[a]), LHandle(es[a], mem)>>]
  /\ UNCHANGED <<basis, ob, obcall, tb, tbcall, mem, pc>>

\* the heap after b = a: primdata_ is resized (OneBodyEngine) or assigned
\* (TwoBodyEngine) in the storage b has, if it has any; initialize() acquires
\* a handle, whatever primdata_[0].stack pointed to, and resizes scratch_
LAssignMem(a, b, m) ==
  LET v == IF b.primdata_ = 0 THEN Len(m) + 1 ELSE b.primdata_
      m1 == IF b.primdata_ = 0
              THEN Append(m, HeapObj("vec", m[a.primdata_].size, 0, NewBuf(0, "stale")))
              ELSE m
      m2 == IF a.cls = "TB"
              THEN [m1 EXCEPT ![v].recs = m[a.primdata_].recs,
                              ![v].contrdepth = m[a.primdata_].contrdepth,
                              ![v].stack = m[a.primdata_].stack]
              ELSE m1
      haslib == IF a.cls = "OB" THEN OBLibInit(a.type_, a.deriv_order_)
                                ELSE TBLibInit(a.deriv_order_)
      cap == IF LHandle(a, m) = 0 THEN 0 ELSE m[LHandle(a, m)].buf.cap
      m3 == IF haslib
              THEN Append([m2 EXCEPT ![v].stack = Len(m2) + 1],
                          HeapObj("lib", 0, 0, NewBuf(cap, "stale")))
              ELSE m2
      m4 == IF b.scratch_ = 0
              THEN Append(m3, HeapObj("scr", 0, 0, NewBuf(m[a.scratch_].buf.cap, "zero")))
              ELSE m3
  IN [vec |-> v, scr |-> IF b.scratch_ = 0 THEN Len(m4) ELSE b.scratch_, mem |-> m4]

\* b = a, in a run that allocates no more than room heap objects
LCopyAssignFor(room) ==
  /\ LRunning
  /\ Len(mem) + 3 <= room
  /\ \E a \in Slots, b \in Slots :
       /\ LUsable(es[a])
       /\ es[b].cls = es[a].cls
       /\ es[b].cls = "TB" => es[b].kind = es[a].kind
       /\ pc[b] = NoPc
       /\ \E r \in {LAssignMem(es[a], es[b], mem)} :
            /\ es' = [es EXCEPT ![b] =
                        [es[a] EXCEPT !.primdata_ = r.vec, !.scratch_ = r.scr]]
            /\ mem' = r.mem
       /\ res' = [res EXCEPT ![b] = NoRes]
       /\ lcall' = LCall("assign", b, a, "ok")
  /\ UNCHANGED <<basis, ob, obcall, tb, tbcall, pc>>

\* b = a;
LCopyAssignAct == LCopyAssignFor(MaxObjs)

\* the heap after b = std::move(a), defaulted: the vectors of b release the
\* storage they had and take that of a; no member of b is finalized
LMoveAssignMem(b, m) ==
  Eager([i \in 1..Len(m) |->
     IF i = b.primdata_ \/ i = b.scratch_ THEN Freed(m[i]) ELSE m[i]])

\* b = std::move(a);
LMoveAssignAct ==
  /\ LRunning
  /\ \E a \in Slots, b \in Slots :
       /\ a # b
       /\ es[a].cls # "none"
       /\ es[b].cls = es[a].cls
       /\ es[b].cls = "TB" => es[b].kind = es[a].kind
       /\ pc[a] = NoPc /\ pc[b] = NoPc
       /\ es' = [es EXCEPT ![b] = es[a], ![a] = LMovedFrom(es[a])]
       /\ mem' = LMoveAssignMem(es[b], mem)
       /\ res' = [res EXCEPT ![a] = NoRes, ![b] = NoRes]
       /\ lcall' = LCall("move_assign", b, a, "ok")
  /\ UNCHANGED <<basis, ob, obcall, tb, tbcall, pc>>

\* the end of the lifetime of an engine
LDestroyAct ==
  /\ LRunning
  /\ \E s \in Slots :
       /\ es[s].cls # "none"
       /\ pc[s] = NoPc
       /\ es' = [es EXCEPT ![s] = NoObject]
       /\ mem' = LDestroyMem(es[s], mem)
       /\ res' = [res EXCEPT ![s] = NoRes]
       /\ lcall' = [LCall("destroy", s, 0, "ok") EXCEPT
                      !.cleaned = LFinalizeCalls(es[s]),
                      !.args = <<LUsable(es[s]), LHandle(es[s], mem)>>]
  /\ UNCHANGED <<basis, ob, obcall, tb, tbcall, pc>>

\* set_q on an engine of the run
LSetQAct ==
  /\ LRunning
  /\ \E s \in Slots, q \in {SubSeq(NucleiPool, 1, MaxNuclei)} :
       /\ es[s].cls = "OB"
       /\ es' = [es EXCEPT ![s].q_ = q]
       /\ lcall' = LCall("set_q", s, 0, "ok")
  /\ UNCHANGED <<basis, ob, obcall, tb, tbcall, mem, res, pc>>

\* the buffer a compute call returned a pointer to
LWhere(o, m, where) == IF where = "stack" THEN LHandle(o, m) ELSE o.scratch_

\* compute on an engine of the run, with a shell pair of P or a quartet of Q
LComputeFor(P, Q) ==
  /\ LRunning
  /\ \E s \in Slots :
       /\ es[s].cls \in {"OB", "TB"}
       /\ \E t \in IF es[s].cls = "OB" THEN P ELSE Q :
            \E r \in {IF es[s].cls = "OB"
                        THEN OBCompute(LLoad(es[s], mem), ShellTable[t[1]], ShellTable[t[2]])
                        ELSE TBCompute(LLoad(es[s], mem),
                                       <<ShellTable[t[1]], ShellTable[t[2]],
                                         ShellTable[t[3]], ShellTable[t[4]]>>)} :
              /\ mem' = LStore(es[s], mem, r.eng)
              /\ res' = [res EXCEPT ![s] =
                           IF r.status = "ok"
                             THEN [buf |-> LWhere(es[s], mem, r.where), n |-> r.n,
                                   val |-> Block(r.eng[r.where], r.n)]
                             ELSE NoRes]
              /\ \E o \in IF r.status = "ub" THEN {"ub_crash", "ub_return"}
                                             ELSE {r.status} :
                   lcall' = [LCall("compute", s, 0, o) EXCEPT
                               !.where = r.where, !.n = r.n, !.kern = r.kern,
                               !.s = t, !.args = <<LUsable(es[s])>>]
  /\ UNCHANGED <<basis, ob, obcall, tb, tbcall, es, pc>>

\* compute on an engine of the run
LComputeAct == LComputeFor(LifePairs, LifeQuartets)

NextLife ==
  \/ LDefaultAct
  \/ LCopyAct
  \/ LMoveAct
  \/ LCopyAssignAct
  \/ LDestroyAct
  \/ LSetQAct
  \/ LComputeAct

SpecLife == InitLife /\ [][NextLife]_vars

(***************************************************************************)
(* The lifetime of the engines of a run and of the library handles they    *)
(* acquire: every constructor and assignment, and the destructor.  compute *)
(* and set_q call neither libint2_init_* nor libint2_cleanup_*.            *)
(***************************************************************************)
MaxHandleObjs == 9   \* nothing is allocated beyond MaxHandleObjs heap objects

\* the constructor calls a run begins with
HandleConfigs == {a \in LifeConfigs : a[2] \in {"overlap", "Coulomb"} /\ a[4] = 1}

InitHandles == InitLife /\ lcall.args \in HandleConfigs

\* b = a;
LHandleAssignAct == LCopyAssignFor(MaxHandleObjs)

NextHandles ==
  \/ LDefaultAct
  \/ LCopyAct
  \/ LMoveAct
  \/ LHandleAssignAct
  \/ LMoveAssignAct
  \/ LDestroyAct

SpecHandles == InitHandles /\ [][NextHandles]_vars

(***************************************************************************)
(* Two threads, one computing on an engine E, the other on a copy of E.    *)
(* A compute call is a sequence of steps: the checks and what precedes the *)
(* loop, one step per operator component (one-body) or the kernel          *)
(* (two-body), and the transform, un-permutation and return.  The steps of *)
(* the two threads are interleaved in any order.                           *)
(***************************************************************************)
\* the constructor calls that E is made by
ParConfigs == {a \in LifeConfigs : LConstructOK(a) /\ a[5] = 0}

\* the shells thread s calls compute on
ParShells(t) ==
  IF Len(t) = 2 THEN <<ShellTable[t[1]], ShellTable[t[2]]>>
  ELSE <<ShellTable[t[1]], ShellTable[t[2]], ShellTable[t[3]], ShellTable[t[4]]>>

\* what a compute call returns: the pointer, and what it points to
Returned(r) ==
  [where |-> r.where, n |-> r.n, val |-> Block(r.eng[r.where], r.n), kern |-> r.kern]

\* the number of steps between the first and the last of a call
ParSteps(e, t) ==
  IF Len(t) = 2 THEN OBCtx(e, t[1], t[2]).num_operset ELSE 1

InitPar ==
  /\ basis = {1, 2, 4}
  /\ ob = NoEngine
  /\ obcall = NoCall
  /\ tb = NoEngine
  /\ tbcall = NoCall
  /\ res = [s \in Slots |-> NoRes]
  /\ pc = [s \in Slots |-> NoPc]
  /\ lcall = LCall("copy", 2, 1, "ok")
  /\ \E a \in ParConfigs, q \in QLists \ {<<>>} :
       \E r1 \in {LNew(<<>>, a[1],
                       IF a[1] = "OB" THEN OBSetQ(LConstruct(a), q) ELSE LConstruct(a),
                       a[6])} :
         \E r2 \in {LCopied(r1.mem, r1.obj)} :
           /\ es = <<r1.obj, r2.obj>>
           /\ mem = r2.mem

\* the first step of a call that passes its checks
ParStartAct ==
  /\ \E s \in Slots :
       /\ pc[s] = NoPc
       /\ \E t \in IF es[s].cls = "OB" THEN LifePairs ELSE LifeQuartets :
            \E e \in {LLoad(es[s], mem)} :
              \E sh \in {ParShells(t)} :
                /\ IF es[s].cls = "OB" THEN OBCheck(e, sh[1], sh[2]) = "ok"
                                       ELSE TBCheck(e, sh) = "ok"
                /\ mem' = LStore(es[s], mem,
                                 IF es[s].cls = "OB"
                                   THEN OBStart(e, OBCtx(e, sh[1], sh[2]))
                                   ELSE TBStart(e, TBCtx(sh)))
                /\ pc' = [pc EXCEPT ![s] =
                            [phase |-> "loop", t |-> t, oset |-> 0, kern |-> <<>>,
                             expect |-> Returned(IF es[s].cls = "OB"
                                                   THEN OBCompute(e, sh[1], sh[2])
                                                   ELSE TBCompute(e, sh))]]
                /\ res' = [res EXCEPT ![s] = NoRes]
                /\ lcall' = [LCall("start", s, 0, "ok") EXCEPT !.s = t]
  /\ UNCHANGED <<basis, ob, obcall, tb, tbcall, es>>

\* one pass of the loop over operator components, or the two-body kernel
ParStepAct ==
  /\ \E s \in Slots :
       /\ pc[s] # NoPc
       /\ \E e \in {LLoad(es[s], mem)} :
            \E sh \in {ParShells(pc[s].t)} :
              /\ pc[s].oset < ParSteps(e, sh)
              /\ IF es[s].cls = "OB"
                   THEN \E st \in {OBOperLoop([OBCtx(e, sh[1], sh[2])
                                                 EXCEPT !.num_operset = pc[s].oset + 1],
                                              [recs |-> e.recs, contrdepth |-> e.contrdepth,
                                               kern |-> pc[s].kern, stack |-> e.stack,
                                               scratch_ |-> e.scratch_],
                                              pc[s].oset)} :
                          /\ mem' = LStore(es[s], mem, st)
                          /\ pc' = [pc EXCEPT ![s].oset = @ + 1, ![s].kern = st.kern]
                   ELSE /\ mem' = LStore(es[s], mem, TBBuild(e, TBCtx(sh)))
                        /\ pc' = [pc EXCEPT ![s].oset = @ + 1]
       /\ lcall' = [LCall("step", s, 0, "ok") EXCEPT !.s = pc[s].t]
  /\ UNCHANGED <<basis, ob, obcall, tb, tbcall, es, res>>

\* the last step of a call
ParFinishAct ==
  /\ \E s \in Slots :
       /\ pc[s] # NoPc
       /\ \E e \in {LLoad(es[s], mem)} :
            \E sh \in {ParShells(pc[s].t)} :
              /\ pc[s].oset = ParSteps(e, sh)
              /\ \E r \in {IF es[s].cls = "OB"
                             THEN OBFinish(e, OBCtx(e, sh[1], sh[2]),
                                           [recs |-> e.recs, contrdepth |-> e.contrdepth,
                                            kern |-> pc[s].kern, stack |-> e.stack,
                                            scratch_ |-> e.scratch_])
                             ELSE TBFinish(e, TBCtx(sh))} :
                   /\ mem' = LStore(es[s], mem, r.eng)
                   /\ res' = [res EXCEPT ![s] =
                                [buf |-> LWhere(es[s], mem, r.where), n |-> r.n,
                                 val |-> Block(r.eng[r.where], r.n)]]
                   /\ lcall' = [LCall("compute", s, 0, "ok") EXCEPT
                                  !.where = r.where, !.n = r.n, !.kern = r.kern,
                                  !.s = pc[s].t, !.args = <<pc[s].expect>>]
       /\ pc' = [pc EXCEPT ![s] = NoPc]
  /\ UNCHANGED <<basis, ob, obcall, tb, tbcall, es>>

NextPar == ParStartAct \/ ParStepAct \/ ParFinishAct

SpecPar == InitPar /\ [][NextPar]_vars

(***************************************************************************)
(* Properties.  Integrals are compared as the mathematical objects they    *)
(* are: an element K of a kernel invocation is the integral its records    *)
(* and Cartesian indices name, whatever the order of the functions in a    *)
(* pair, or of the two pairs.                                              *)
(***************************************************************************)
Range(f) == {f[x] : x \in DOMAIN f}

Cart(i) == <<"c", i>>

\* the sum over kernel invocations 1..nk of element idx
KSum(nk, idx) == Eager([k \in 1..nk |-> <<"K", k, idx>>])

OBReturned == obcall.op = "compute" /\ obcall.status = "ok"

OBShell1 == ShellTable[obcall.s1]

OBShell2 == ShellTable[obcall.s2]

\* every kernel invocation of a call was made for bra a and ket b
OBKernFor(kern, a, b) ==
  \A n \in 1..Len(kern) :
    /\ kern[n].l = <<a.l, b.l>>
    /\ Len(kern[n].recs) = nprim(a) * nprim(b)
    /\ \A k \in 1..Len(kern[n].recs) :
         kern[n].recs[k].geom[1] = a.O /\ kern[n].recs[k].geom[3] = b.O

\* C2: on Cartesian shells the one-body result is the size(s1) x size(s2)
\* row-major matrix whose element i*n2+j is element (i,j) of the kernel
\* called for (s1,s2), or element (j,i) of the kernel called for (s2,s1);
\* for two s shells it is the sum of the records' seeds
C2_RowMajor ==
  (OBReturned /\ ~OBShell1.pure /\ ~OBShell2.pure) =>
    LET n1 == size(OBShell1)
        n2 == size(OBShell2)
        nk == Len(obcall.kern)
        nop == IF ob.type_ = "nuclear" THEN Len(ob.q_) ELSE 1
    IN /\ obcall.n = n1 * n2
       /\ IF OBShell1.l = 0 /\ OBShell2.l = 0
            THEN /\ nk = 0
                 /\ Len(OBResult(0)) = nop * nprim(OBShell1) * nprim(OBShell2)
                 /\ \A a \in Range(OBResult(0)) : a[1] = "seed" /\ a[2] = ob.type_
            ELSE /\ nk = nop
                 /\ \/ /\ OBKernFor(obcall.kern, OBShell1, OBShell2)
                       /\ \A i \in 0..(n1 - 1), j \in 0..(n2 - 1) :
                            OBResult(i * n2 + j) = KSum(nk, <<Cart(i), Cart(j)>>)
                    \/ /\ OBKernFor(obcall.kern, OBShell2, OBShell1)
                       /\ \A i \in 0..(n1 - 1), j \in 0..(n2 - 1) :
                            OBResult(i * n2 + j) = KSum(nk, <<Cart(j), Cart(i)>>)

C2_Witness ==
  /\ OBReturned
  /\ ob.type_ = "nuclear" /\ Len(ob.q_) = 2
  /\ obcall.s1 = 2 /\ obcall.s2 = 8

\* a kernel invocation as the integrals it computes, and with bra and ket
\* exchanged
OBKernId(k) == [fam |-> k.fam, l |-> <<k.l[1], k.l[2]>>, recs |-> Range(k.recs)]

OBKernFlip(k) ==
  [fam |-> k.fam, l |-> <<k.l[2], k.l[1]>>,
   recs |-> {[r EXCEPT !.geom = <<r.geom[3], r.geom[4], r.geom[1], r.geom[2]>>] :
               r \in Range(k.recs)}]

\* values v1 of a call with kernel invocations kern1 and v2 of a call with
\* kern2 are the same sum of integrals
OBSameValue(v1, kern1, v2, kern2) ==
  IF v1 # <<>> /\ v1[1][1] = "seed"
    THEN SumBag(v1) = SumBag(v2) /\ \A a \in Range(v1) : a[1] = "seed"
    ELSE /\ Len(v1) > 0 /\ Len(v1) = Len(v2)
         /\ \A n \in 1..Len(v1) :
              /\ v1[n][1] = "K" /\ v2[n][1] = "K"
              /\ \/ /\ OBKernId(kern1[v1[n][2]]) = OBKernId(kern2[v2[n][2]])
                    /\ v1[n][3] = v2[n][3]
                 \/ /\ OBKernFlip(kern1[v1[n][2]]) = OBKernId(kern2[v2[n][2]])
                    /\ <<v1[n][3][2], v1[n][3][1]>> = v2[n][3]

\* C3: whenever compute(s1,s2) has returned, compute(s2,s1) on the same
\* engine returns the transposed result: element i*n2+j of the first is
\* element j*n1+i of the second
C3_Symmetry ==
  OBReturned =>
    LET n1 == size(OBShell1)
        n2 == size(OBShell2)
    IN \A r \in {OBCompute(ob, OBShell2, OBShell1)} :
       /\ r.status = "ok"
       /\ r.n = n1 * n2 /\ obcall.n = n1 * n2
       /\ \A i \in 0..(n1 - 1), j \in 0..(n2 - 1) :
            OBSameValue(OBResult(i * n2 + j), obcall.kern,
                        Rd(r.eng[r.where], j * n1 + i), r.kern)

C3_Witness ==
  /\ OBReturned
  /\ ob.type_ = "kinetic"
  /\ obcall.s1 = 4 /\ obcall.s2 = 3

\* a compute call on a nuclear engine without charges, with singly
\* contracted shells
OBNoChargeCall ==
  /\ obcall.op = "compute"
  /\ ob.type_ = "nuclear" /\ ob.q_ = <<>>
  /\ OBShell1.ncontr = 1 /\ OBShell2.ncontr = 1

\* C6 as stated: every compute call on a nuclear engine with an empty
\* charge list reports the "no nuclei" error
C6_Original == OBNoChargeCall => obcall.status = "throw"

\* C6, amended: on a nuclear engine of derivative order 0 with an empty
\* charge list, every compute call on singly contracted shells reports the
\* "no nuclei" error, returns no buffer and invokes no kernel
C6_NoNuclei ==
  (OBNoChargeCall /\ ob.deriv_order_ = 0) =>
    obcall.status = "throw" /\ obcall.where = "none" /\ obcall.kern = <<>>

C6_Witness ==
  /\ OBNoChargeCall /\ ob.deriv_order_ = 0
  /\ obcall.status = "throw"
  /\ nprim(OBShell1) * nprim(OBShell2) > ob.nprimdata

\* the engine as its constructor makes it
OBFresh(e) ==
  CHOOSE f \in {OBConstruct(e.type_, N, L, d) :
                  N \in 1..MaxNprim, L \in 1..MaxL, d \in 0..MaxDeriv} :
    f.nprimdata = e.nprimdata /\ f.lmax_ = e.lmax_
      /\ f.deriv_order_ = e.deriv_order_

\* what the caller of compute sees
OBOutcome(r) ==
  [status |-> r.status, n |-> r.n, kern |-> r.kern,
   val |-> Eager([i \in 0..(r.n - 1) |-> Rd(r.eng[r.where], i)])]

\* C7: a compute call that fails for want of nuclei leaves the engine as
\* it was, and after it set_q with a non-empty list followed by compute
\* gives what the same two calls give on a freshly constructed engine
C7_NoNucleiLocal ==
  (ob # NoEngine /\ obcall.status # "assert"
     /\ ob.type_ = "nuclear" /\ ob.q_ = <<>>) =>
    \A i1 \in basis, i2 \in basis :
      \A r \in {OBCompute(ob, ShellTable[i1], ShellTable[i2])} :
         r.status = "throw" =>
           /\ r.eng = ob
           /\ \A q \in QLists \ {<<>>} :
                OBOutcome(OBCompute(OBSetQ(r.eng, q), ShellTable[i1], ShellTable[i2]))
                  = OBOutcome(OBCompute(OBSetQ(OBFresh(ob), q),
                                        ShellTable[i1], ShellTable[i2]))

C7_Witness ==
  /\ obcall.op = "compute" /\ obcall.status = "throw"
  /\ ob.contrdepth > 0 /\ ob.scratch_.rest = "stale"

\* a compute call no other check than that of the capacity can reject
OBCapacityCall ==
  /\ obcall.op = "compute"
  /\ OBShell1.ncontr = 1 /\ OBShell2.ncontr = 1
  /\ ob.deriv_order_ = 0
  /\ ~(ob.type_ = "nuclear" /\ ob.q_ = <<>>)
  /\ OBShell1.l <= ob.lmax_ /\ OBShell2.l <= ob.lmax_

\* C8 as stated: with max_nprim = N, a call with a shell of more than N
\* primitives is rejected, whatever the other shell
C8_Original ==
  OBCapacityCall =>
    ((nprim(OBShell1) * nprim(OBShell1) > ob.nprimdata
        \/ nprim(OBShell2) * nprim(OBShell2) > ob.nprimdata)
       => obcall.status = "assert")

\* C8, amended: with max_nprim = N, a call on shells of exactly N
\* primitives succeeds, and a call is rejected exactly when the product of
\* the two primitive counts exceeds N * N
C8_Capacity ==
  OBCapacityCall =>
    /\ (nprim(OBShell1) * nprim(OBShell1) = ob.nprimdata
          /\ nprim(OBShell2) * nprim(OBShell2) = ob.nprimdata)
         => obcall.status = "ok"
    /\ (nprim(OBShell1) * nprim(OBShell2) > ob.nprimdata)
         <=> obcall.status = "assert"

C8_Witness ==
  /\ OBCapacityCall
  /\ obcall.status = "ok"
  /\ nprim(OBShell1) = 2 /\ nprim(OBShell2) = 2 /\ ob.nprimdata = 4

TBReturned == tbcall.op = "compute" /\ tbcall.status = "ok"

TBShells ==
  <<ShellTable[tbcall.s1], ShellTable[tbcall.s2],
    ShellTable[tbcall.s3], ShellTable[tbcall.s4]>>

\* row-major offset of index i in a tensor of dimensions n
Off4(i, n) == ((i[1] * n[2] + i[2]) * n[3] + i[3]) * n[4] + i[4]

Idx4(n) == (0..(n[1] - 1)) \X (0..(n[2] - 1)) \X (0..(n[3] - 1)) \X (0..(n[4] - 1))

\* the three swaps of the standard ordering applied to a 4-tuple
Swapped(t, x) ==
  LET swap_bra == t[1].l < t[2].l
      swap_ket == t[3].l < t[4].l
      swap_braket == t[1].l + t[2].l > t[3].l + t[4].l
  IN <<IF swap_braket THEN (IF swap_ket THEN x[4] ELSE x[3])
                      ELSE (IF swap_bra THEN x[2] ELSE x[1]),
       IF swap_braket THEN (IF swap_ket THEN x[3] ELSE x[4])
                      ELSE (IF swap_bra THEN x[1] ELSE x[2]),
       IF swap_braket THEN (IF swap_bra THEN x[2] ELSE x[1])
                      ELSE (IF swap_ket THEN x[4] ELSE x[3]),
       IF swap_braket THEN (IF swap_bra THEN x[1] ELSE x[2])
                      ELSE (IF swap_ket THEN x[3] ELSE x[4])>>

\* the kernel invocation of a call was made for the shells s, in this order
TBKernFor(kern, s) ==
  /\ Len(kern) = 1
  /\ \A k \in 1..4 : kern[1].l[k] = s[k].l
  /\ Len(kern[1].recs) = nprim(s[1]) * nprim(s[2]) * nprim(s[3]) * nprim(s[4])
  /\ \A n \in 1..Len(kern[1].recs), k \in 1..4 :
       kern[1].recs[n].geom[k][1] = s[k].O

\* C1: on Cartesian shells, not all of them s, element
\* ((i1*n2+i2)*n3+i3)*n4+i4 of the two-body result is element (j1,j2,j3,j4)
\* of the kernel called for the canonical quadruple, (j1,j2,j3,j4) being
\* (i1,i2,i3,i4) under the swaps that make the quadruple canonical
C1_Unpermute ==
  (TBReturned /\ (\A k \in 1..4 : ~TBShells[k].pure)
              /\ (\E k \in 1..4 : TBShells[k].l > 0)) =>
    LET t == TBShells
        n == <<size(t[1]), size(t[2]), size(t[3]), size(t[4])>>
    IN /\ tbcall.n = n[1] * n[2] * n[3] * n[4]
       /\ TBKernFor(tbcall.kern, Swapped(t, t))
       /\ \A i \in Idx4(n) :
            LET j == Swapped(t, i)
            IN TBResult(Off4(i, n))
                 = <<<<"K", 1, <<Cart(j[1]), Cart(j[2]), Cart(j[3]), Cart(j[4])>>>>>>

C1_Witness ==
  /\ TBReturned
  /\ <<tbcall.s1, tbcall.s2, tbcall.s3, tbcall.s4>> = <<8, 8, 2, 8>>

\* the permutations of the four functions that leave an integral unchanged
TBPerms ==
  {<<1, 2, 3, 4>>, <<2, 1, 3, 4>>, <<1, 2, 4, 3>>, <<2, 1, 4, 3>>,
   <<3, 4, 1, 2>>, <<4, 3, 1, 2>>, <<3, 4, 2, 1>>, <<4, 3, 2, 1>>}

PermT(t, p) == <<t[p[1]], t[p[2]], t[p[3]], t[p[4]]>>

TBKernPerm(k, p) ==
  [l |-> PermT(k.l, p),
   recs |-> {[r EXCEPT !.geom = PermT(r.geom, p)] : r \in Range(k.recs)}]

\* the permutations that turn the kernel invocation of one call into that
\* of another
TBSymPerms(kern1, kern2) ==
  IF Len(kern1) # 1 \/ Len(kern2) # 1 THEN {}
  ELSE {p \in TBPerms : TBKernPerm(kern1[1], p) = TBKernPerm(kern2[1], <<1, 2, 3, 4>>)}

\* v1 and v2 are the same integral, P the permutations between their calls
TBSameValue(v1, v2, P) ==
  IF v1 # <<>> /\ v1[1][1] = "seed"
    THEN SumBag(v1) = SumBag(v2) /\ \A a \in Range(v1) : a[1] = "seed"
    ELSE /\ Len(v1) = 1 /\ Len(v2) = 1
         /\ v1[1][1] = "K" /\ v2[1][1] = "K"
         /\ \E p \in P : PermT(v1[1][3], p) = v2[1][3]

\* compute on the shells of the last call permuted by p gives the result of
\* the last call with its axes permuted by p
TBPermuted(p) ==
  LET t == TBShells
      n == <<size(t[1]), size(t[2]), size(t[3]), size(t[4])>>
  IN \A r \in {TBCompute(tb, PermT(t, p))} :
       \A P \in {TBSymPerms(tbcall.kern, r.kern)} :
         /\ r.status = "ok"
         /\ r.n = tbcall.n
         /\ \A i \in Idx4(n) :
              TBSameValue(TBResult(Off4(i, n)),
                          Rd(r.eng[r.where], Off4(PermT(i, p), PermT(n, p))), P)

\* C4: compute(a,b,c,d)[i,j,k,l] = compute(a,b,d,c)[i,j,l,k] and
\* compute(a,b,c,d)[i,j,k,l] = compute(b,a,c,d)[j,i,k,l]
C4_PairSymmetry ==
  TBReturned => TBPermuted(<<1, 2, 4, 3>>) /\ TBPermuted(<<2, 1, 3, 4>>)

C4_Witness ==
  /\ TBReturned
  /\ <<tbcall.s1, tbcall.s2, tbcall.s3, tbcall.s4>> = <<8, 2, 2, 8>>

\* C5: compute(a,b,c,d)[i,j,k,l] = compute(c,d,a,b)[k,l,i,j]
C5_BraKetSymmetry == TBReturned => TBPermuted(<<3, 4, 1, 2>>)

C5_Witness ==
  /\ TBReturned
  /\ <<tbcall.s1, tbcall.s2, tbcall.s3, tbcall.s4>> = <<2, 8, 2, 2>>

\* C9: a two-body engine writes no record at an index >= max_nprim^4, and
\* a call with more primitive quadruples than that is rejected before any
\* record is written
C9_RecordCapacity ==
  tbcall.op = "compute" =>
    /\ Len(tb.recs) <= tb.nprimdata
    /\ tbcall.nrecs <= tb.nprimdata
    /\ (nprim(TBShells[1]) * nprim(TBShells[2]) * nprim(TBShells[3])
          * nprim(TBShells[4]) > tb.nprimdata) => tbcall.status = "assert"

\* C10: on an engine of nonzero derivative order every compute call ends in
\* a failed assertion, returns no buffer and invokes no kernel
C10_DerivFatal ==
  /\ (obcall.op = "compute" /\ ob.deriv_order_ # 0) =>
       obcall.status = "assert" /\ obcall.where = "none" /\ obcall.kern = <<>>
  /\ (tbcall.op = "compute" /\ tb.deriv_order_ # 0) =>
       tbcall.status = "assert" /\ tbcall.where = "none" /\ tbcall.kern = <<>>

C10_Witness ==
  /\ tbcall.op = "compute" /\ tb.deriv_order_ = 1
  /\ tbcall.status = "assert"
  /\ \A k \in 1..4 : TBShells[k].ncontr = 1 /\ TBShells[k].l <= tb.lmax_

(***************************************************************************)
(* Properties of runs with several engines.                                *)
(***************************************************************************)
\* the constructor call a run begins with
LConstructCall == lcall.op = "construct"

\* C11: the construction of an engine fails with a fatal check whenever
\* max_l exceeds the compiled maximum of the kernel family of the engine, or
\* deriv_order the compiled derivative capability of that same family (the
\* one-body capability for OneBodyEngine, the two-body one for
\* TwoBodyEngine); an engine whose construction succeeded holds a library
\* handle and a scratch buffer of nonzero size.
C11_ConstructionChecked ==
  LConstructCall =>
    /\ (lcall.args[1] = "OB"
          /\ (lcall.args[4] > OBMaxAM(lcall.args[2])
                \/ lcall.args[5] > LIBINT2_DERIV_ONEBODY_ORDER))
         => lcall.status = "assert"
    /\ (lcall.args[1] = "TB"
          /\ (lcall.args[4] > LIBINT2_MAX_AM_ERI
                \/ lcall.args[5] > LIBINT2_DERIV_ERI_ORDER))
         => lcall.status = "assert"
    /\ lcall.status = "ok"
         => /\ LHandle(es[1], mem) # 0
            /\ mem[es[1].scratch_].buf.cap > 0

\* C13: move construction transfers the handle.  After B is move-constructed
\* from a usable engine A, A holds no handle and B holds the one A held; the
\* destruction of an engine without records (A) calls no cleanup, the
\* destruction of a usable engine (B) calls cleanup once, on its handle, and
\* no handle is cleaned up twice.
C13_MoveTransfers ==
  /\ (lcall.op = "move" /\ lcall.args[1])
       => /\ LHandle(es[lcall.src], mem) = 0
          /\ lcall.args[2] # 0
          /\ LHandle(es[lcall.slot], mem) = lcall.args[2]
          /\ mem[lcall.args[2]].cleanups = 0
  /\ (lcall.op = "destroy" /\ ~lcall.args[1]) => lcall.cleaned = 0
  /\ (lcall.op = "destroy" /\ lcall.args[1])
       => /\ lcall.cleaned = 1
          /\ lcall.args[2] # 0
          /\ mem[lcall.args[2]].cleanups = 1
  /\ \A i \in 1..Len(mem) : mem[i].cleanups <= 1

\* C14: an engine without records (default-constructed or moved-from) touches
\* neither library resources nor records: its destruction calls no cleanup,
\* and a compute call on it is rejected by a check (an assertion, or the
\* exception of the missing nuclei) before anything is read or written.
C14_UnusableRejected ==
  /\ (lcall.op = "destroy" /\ ~lcall.args[1]) => lcall.cleaned = 0
  /\ (lcall.op = "compute" /\ ~lcall.args[1]) => lcall.status \in {"assert", "throw"}

\* C15: the buffer a compute call returned is storage of the engine (the
\* memory of its handle, where the records' result area is, or scratch_),
\* and holds what the call returned as long as no later compute call is made
\* on that engine: set_q on it and operations on other engines, copies of it
\* included, leave it as it is.
C15_ResultStable ==
  \A s \in Slots :
    res[s] # NoRes =>
      /\ res[s].buf # 0
      /\ res[s].buf \in {LHandle(es[s], mem), es[s].scratch_}
      /\ mem[res[s].buf].live
      /\ Block(mem[res[s].buf].buf, res[s].n) = res[s].val

\* a compute call on another engine has returned, and set_q has been called,
\* while the result of an engine is held in its scratch_
C15_Witness ==
  \E a \in Slots, b \in Slots :
    /\ a # b
    /\ res[a] # NoRes
    /\ res[a].buf = es[a].scratch_
    /\ es[a].q_ # <<>>
    /\ lcall.op = "compute"
    /\ lcall.slot = b
    /\ lcall.status = "ok"
    /\ res[b] # NoRes
    /\ res[b].buf = es[b].scratch_

\* the usable engines of kind DelcGTG_square
DelcEngines ==
  {s \in Slots : es[s].cls = "TB" /\ es[s].kind = "DelcGTG_square" /\ LUsable(es[s])}

\* the pairs of terms of a geminal of n terms
TermPairs(n) == {p \in (1..n) \X (1..n) : p[2] <= p[1]}

\* core holds one term per pair of terms of the geminal g, the term of pair p
\* having the exponent a_i + a_k and the coefficient 4 a_i a_k c_i c_k f[p]
CoreParamsAre(core, g, f) ==
  /\ Len(core) = (Len(g) * (Len(g) + 1)) \div 2
  /\ \A j \in 1..Len(core) :
       Cardinality({x \in 1..Len(core) : core[x] = core[j]})
         = Cardinality({p \in TermPairs(Len(g)) :
              core[j] = <<g[p[1]][1] + g[p[2]][1],
                          4 * g[p[1]][1] * g[p[2]][1] * g[p[1]][2] * g[p[2]][2] * f[p]>>})

SumOver(v, T, atom) ==
  /\ Len(v) = Cardinality(T)
  /\ \A t \in T :
       Cardinality({k \in 1..Len(v) : v[k] = atom[t]})
         = Cardinality({u \in T : atom[u] = atom[t]})

\* the operator components and primitive pairs of a one-body call
OBCombinations ==
  (0..((IF ob.type_ = "nuclear" THEN Len(ob.q_) ELSE 1) - 1))
    \X (0..(nprim(OBShell1) - 1)) \X (0..(nprim(OBShell2) - 1))

\* the primitive quadruples of a two-body call
TBCombinations ==
  (0..(nprim(TBShells[1]) - 1)) \X (0..(nprim(TBShells[2]) - 1))
    \X (0..(nprim(TBShells[3]) - 1)) \X (0..(nprim(TBShells[4]) - 1))

\* C17: when all shells of a call have l = 0, no kernel is invoked, and the
\* one value returned is the sum, started from 0 in every call, of the
\* order-0 seeds of all primitive combinations of the shells (for a nuclear
\* engine: of all nuclei and primitive pairs), whatever the purity of the
\* shells.
C17_Shortcut ==
  /\ (OBReturned /\ OBShell1.l = 0 /\ OBShell2.l = 0)
       => /\ obcall.kern = <<>>
          /\ obcall.n = 1
          /\ SumOver(OBResult(0), OBCombinations,
                     [t \in OBCombinations |->
                        <<"seed", ob.type_,
                          OBSeed(ob.type_, OBPrimData(ob, StaleRec, OBShell1, OBShell2,
                                                      t[2], t[3], t[1]))>>])
  /\ (TBReturned /\ \A k \in 1..4 : TBShells[k].l = 0)
       => /\ tbcall.kern = <<>>
          /\ tbcall.n = 1
          /\ SumOver(TBResult(0), TBCombinations,
                     [t \in TBCombinations |->
                        <<"seed", "eri", TBPrimData(tb, StaleRec, TBShells, t).SS_EREP_SS>>])

\* a nuclear engine with two nuclei has returned from a call on s shells of
\* two primitives, one of them a solid-harmonics shell, after an earlier
\* call that invoked kernels
C17_Witness ==
  /\ OBReturned
  /\ ob.type_ = "nuclear"
  /\ Len(ob.q_) = 2
  /\ OBShell1.l = 0 /\ OBShell2.l = 0
  /\ OBShell1.pure
  /\ nprim(OBShell1) = 2
  /\ ob.scratch_.rest = "stale"

\* a nuclear engine has returned from a call that is not on two s shells
OBNuclearCall ==
  OBReturned /\ ob.type_ = "nuclear" /\ (OBShell1.l > 0 \/ OBShell2.l > 0)

\* C18: a nuclear call with lmax > 0 on an engine of k >= 1 nuclei invokes
\* the kernel k times, the n-th time on records of the n-th nucleus of the
\* list; the Cartesian buffer scratch_, which is what the call returns when
\* the shells are Cartesian, holds in element (i, j) the sum, started from 0
\* in every call, of the elements (i, j) of the k outputs, or of their
\* elements (j, i) when the kernel was called for (s2, s1).
C18_NucleiSummed ==
  OBNuclearCall =>
    /\ Len(ob.q_) >= 1
    /\ Len(obcall.kern) = Len(ob.q_)
    /\ \A n \in 1..Len(obcall.kern) :
         /\ obcall.kern[n].fam = "nuclear"
         /\ \A k \in 1..Len(obcall.kern[n].recs) : obcall.kern[n].recs[k].op = ob.q_[n]
    /\ (~OBShell1.pure /\ ~OBShell2.pure) => obcall.where = "scratch_"
    /\ \/ /\ OBKernFor(obcall.kern, OBShell1, OBShell2)
          /\ \A i \in 0..(cartesian_size(OBShell1) - 1),
                j \in 0..(cartesian_size(OBShell2) - 1) :
               Rd(ob.scratch_, i * cartesian_size(OBShell2) + j)
                 = KSum(Len(ob.q_), <<Cart(i), Cart(j)>>)
       \/ /\ OBKernFor(obcall.kern, OBShell2, OBShell1)
          /\ \A i \in 0..(cartesian_size(OBShell1) - 1),
                j \in 0..(cartesian_size(OBShell2) - 1) :
               Rd(ob.scratch_, i * cartesian_size(OBShell2) + j)
                 = KSum(Len(ob.q_), <<Cart(j), Cart(i)>>)

\* a call with two nuclei on a p and a d shell, swapped, on an engine whose
\* scratch_ held the sum of an earlier call
C18_Witness ==
  /\ OBNuclearCall
  /\ Len(ob.q_) = 2
  /\ obcall.s1 = 2 /\ obcall.s2 = 8
  /\ obcall.where = "scratch_"
  /\ ob.scratch_.rest = "stale"

\* the records of a two-body call were written for the shells s, in this
\* order
TBRecsFor(recs, s) ==
  /\ Len(recs) = nprim(s[1]) * nprim(s[2]) * nprim(s[3]) * nprim(s[4])
  /\ \A n \in 1..Len(recs) :
       IF \A k \in 1..4 : s[k].l = 0
         THEN \E p \in Idx4(<<nprim(s[1]), nprim(s[2]), nprim(s[3]), nprim(s[4])>>) :
                recs[n].SS_EREP_SS = TBPrimData(tb, StaleRec, s, p).SS_EREP_SS
         ELSE \A k \in 1..4 : recs[n].geom[k][1] = s[k].O

\* C19: in every two-body call the canonical quadruple, for which the
\* records are written, is the caller's quadruple under a permutation that
\* keeps the pairs {tbra1, tbra2} and {tket1, tket2} together, and satisfies
\* bra1.l >= bra2.l, ket1.l >= ket2.l, bra1.l + bra2.l <= ket1.l + ket2.l;
\* the kernel, invoked unless all shells are s shells, is the one of the
\* four canonical angular momenta.
C19_CanonicalOrder ==
  TBReturned =>
    \E p \in TBPerms :
      \A s \in {PermT(TBShells, p)} :
        /\ TBRecsFor(tb.recs, s)
        /\ s[1].l >= s[2].l
        /\ s[3].l >= s[4].l
        /\ s[1].l + s[2].l <= s[3].l + s[4].l
        /\ (\E k \in 1..4 : s[k].l > 0) => TBKernFor(tbcall.kern, s)

\* a call that needs the three swaps: (p d | s p)
C19_Witness ==
  /\ TBReturned
  /\ <<tbcall.s1, tbcall.s2, tbcall.s3, tbcall.s4>> = <<2, 8, 1, 2>>
  /\ TBKernFor(tbcall.kern, PermT(TBShells, <<4, 3, 2, 1>>))

\* the records of a one-body call were written for bra a and ket b
OBRecsFor(recs, a, b) ==
  /\ Len(recs) = nprim(a) * nprim(b)
  /\ \A n \in 1..Len(recs) : recs[n].geom[1] = a.O /\ recs[n].geom[3] = b.O

\* C20: a one-body call swaps its shells exactly when l1 < l2: the records
\* are written for (bra, ket) = (s2, s1) if l1 < l2 and for (s1, s2)
\* otherwise, bra.l >= ket.l, and every kernel invoked is the kernel of the
\* operator type of the engine and of (bra.l, ket.l).
C20_Canonical ==
  OBReturned =>
    \A c \in {IF OBShell1.l < OBShell2.l THEN <<OBShell2, OBShell1>>
                                         ELSE <<OBShell1, OBShell2>>} :
      /\ c[1].l >= c[2].l
      /\ OBRecsFor(ob.recs, c[1], c[2])
      /\ (c[1].l > 0) => Len(obcall.kern) >= 1
      /\ OBKernFor(obcall.kern, c[1], c[2])
      /\ \A n \in 1..Len(obcall.kern) : obcall.kern[n].fam = ob.type_

\* a kinetic call on a p and a d shell, which are swapped
C20_Witness ==
  /\ OBReturned
  /\ ob.type_ = "kinetic"
  /\ obcall.s1 = 2 /\ obcall.s2 = 8
  /\ OBKernFor(obcall.kern, OBShell2, OBShell1)
  /\ Len(obcall.kern) = 1

(***************************************************************************)
(* Properties of interleaved calls.                                        *)
(***************************************************************************)
\* the storage an engine object reads and writes in compute
LStorage(o) == {o.primdata_, LHandle(o, mem), o.scratch_} \ {0}

\* C12: an engine and its copy own disjoint record arrays, handles and
\* scratch buffers; with the steps of compute calls on the two interleaved in
\* any order, a call returns what it returns when nothing runs between its
\* steps, and what it returned stays as it is while the other thread
\* computes.
C12_Independent ==
  /\ LStorage(es[1]) \cap LStorage(es[2]) = {}
  /\ \A s \in Slots :
       res[s] # NoRes => Block(mem[res[s].buf].buf, res[s].n) = res[s].val
  /\ lcall.op = "compute"
       => [where |-> lcall.where, n |-> lcall.n, val |-> res[lcall.slot].val,
           kern |-> lcall.kern] = lcall.args[1]

\* a nuclear call on the engine has returned from a swapped call on an s and
\* a p shell while a call on the copy is between two of its steps
C12_Witness ==
  /\ lcall.op = "compute"
  /\ lcall.slot = 1
  /\ lcall.s = <<1, 4>>
  /\ es[1].type_ = "nuclear"
  /\ pc[2] # NoPc
  /\ pc[2].oset = 1
  /\ pc[2].t = <<2, 1>>


(***************************************************************************)
(* Properties of the phases of compute.                                    *)
(***************************************************************************)
\* index x of an axis of shell s: a solid-harmonics index if the axis was
\* transformed, a Cartesian index otherwise
AxIdx(s, x) == IF s.pure THEN SphIdx(s.l, x) ELSE Cart(x)

\* the number of solid-harmonics shells of a quadruple
NPure(t) == Cardinality({k \in 1..4 : t[k].pure})

\* C21: in a two-body call with maximum angular momentum > 0 and at least
\* one solid-harmonics shell, axis n of the canonical tensor is transformed
\* exactly when canonical shell n is pure, with that shell's angular
\* momentum and in the order 1, 2, 3, 4; the un-permutation reads the buffer
\* the last transform wrote and writes the other one; so element
\* ((i1*n2+i2)*n3+i3)*n4+i4 of the result, n the sizes of the caller's
\* shells, is element (j1,j2,j3,j4) of the kernel's tensor with its pure
\* axes transformed, (j1,j2,j3,j4) being (i1,i2,i3,i4) made canonical
C21_TransformThenUnpermute ==
  (TBReturned /\ (\E k \in 1..4 : TBShells[k].pure)
              /\ (\E k \in 1..4 : TBShells[k].l > 0)) =>
    LET t == TBShells
        s == Swapped(t, t)
        n == <<size(t[1]), size(t[2]), size(t[3]), size(t[4])>>
    IN /\ tbcall.n = n[1] * n[2] * n[3] * n[4]
       /\ TBKernFor(tbcall.kern, s)
       /\ tbcall.where = IF NPure(t) % 2 = 1 THEN "stack" ELSE "scratch_"
       /\ \A i \in Idx4(n) :
            LET j == Swapped(t, i)
            IN TBResult(Off4(i, n))
                 = <<<<"K", 1, <<AxIdx(s[1], j[1]), AxIdx(s[2], j[2]),
                                 AxIdx(s[3], j[3]), AxIdx(s[4], j[4])>>>>>>

\* a call with all three swaps and pure shells on canonical axes 1 and 3:
\* two transforms, and the un-permutation writes scratch_
C21_Witness ==
  /\ TBReturned
  /\ <<tbcall.s1, tbcall.s2, tbcall.s3, tbcall.s4>> = <<2, 3, 1, 4>>
  /\ tbcall.where = "scratch_"


\* C22: in every one-body call that returns, the records are assembled
\* before the kernel (or the shortcut) that reads them, the kernel's block
\* is brought into the caller's (s1,s2) order before the solid-harmonics
\* transform, the transform uses l1 on the rows if s1 is pure and l2 on the
\* columns if s2 is pure, and it writes the buffer that is not its input:
\* element i*n2+j of the returned buffer is the sum over the operator
\* components of element (i,j) of the kernel called for (s1,s2), or element
\* (j,i) of the kernel called for (s2,s1), with the axes of the pure shells
\* transformed; the returned buffer is the one the Cartesian block was not
\* in if a shell is pure, the one it was in otherwise
C22_Phases ==
  OBReturned =>
    LET s1 == OBShell1
        s2 == OBShell2
        n1 == size(s1)
        n2 == size(s2)
        swap == s1.l < s2.l
        shortcut == s1.l = 0 /\ s2.l = 0
        nop == IF ob.type_ = "nuclear" THEN Len(ob.q_) ELSE 1
        cart_buf == IF (swap \/ ob.type_ = "nuclear") /\ ~shortcut
                      THEN "scratch_" ELSE "stack"
        other == IF cart_buf = "stack" THEN "scratch_" ELSE "stack"
    IN /\ obcall.n = n1 * n2
       /\ obcall.where = IF s1.pure \/ s2.pure THEN other ELSE cart_buf
       /\ IF shortcut
            THEN /\ obcall.kern = <<>>
                 /\ Len(OBResult(0)) = nop * nprim(s1) * nprim(s2)
                 /\ \A a \in Range(OBResult(0)) : a[1] = "seed" /\ a[2] = ob.type_
            ELSE /\ Len(obcall.kern) = nop
                 /\ OBKernFor(obcall.kern, IF swap THEN s2 ELSE s1,
                                           IF swap THEN s1 ELSE s2)
                 /\ \A i \in 0..(n1 - 1), j \in 0..(n2 - 1) :
                      OBResult(i * n2 + j)
                        = KSum(nop, IF swap THEN <<AxIdx(s2, j), AxIdx(s1, i)>>
                                            ELSE <<AxIdx(s1, i), AxIdx(s2, j)>>)

\* a swapped nuclear call with two nuclei, only s2 pure: two kernel
\* invocations, each transposed into scratch_, the columns transformed into
\* the stack
C22_Witness ==
  /\ OBReturned
  /\ ob.type_ = "nuclear" /\ Len(ob.q_) = 2
  /\ obcall.s1 = 1 /\ obcall.s2 = 3
  /\ Len(obcall.kern) = 2 /\ obcall.where = "stack"


\* the records r are those of the primitive pairs of (a, b), in nested
\* row-major order: record pa * nprim(b) + pb is that of primitives pa, pb
OBRecsInOrder(r, a, b) ==
  /\ Len(r) = nprim(a) * nprim(b)
  /\ \A pa \in 0..(nprim(a) - 1), pb \in 0..(nprim(b) - 1) :
       LET rec == r[pa * nprim(b) + pb + 1]
       IN /\ rec.geom = <<a.O, a.alpha[pa + 1], b.O, b.alpha[pb + 1]>>
          /\ rec.OVERLAP[4] = a.coeff[pa + 1] * b.coeff[pb + 1]

\* the records r are those of the primitive quadruples of the shells s, in
\* nested row-major order
TBRecsInOrder(r, s) ==
  /\ Len(r) = nprim(s[1]) * nprim(s[2]) * nprim(s[3]) * nprim(s[4])
  /\ \A p \in Idx4(<<nprim(s[1]), nprim(s[2]), nprim(s[3]), nprim(s[4])>>) :
       LET rec == r[Off4(p, <<nprim(s[1]), nprim(s[2]), nprim(s[3]), nprim(s[4])>>) + 1]
       IN /\ (\E k \in 1..4 : s[k].l > 0) =>
               \A k \in 1..4 : rec.geom[k] = <<s[k].O, s[k].alpha[p[k] + 1]>>
          /\ rec.SS_EREP_SS[3] = s[1].coeff[p[1] + 1] * s[2].coeff[p[2] + 1]
                                   * s[3].coeff[p[3] + 1] * s[4].coeff[p[4] + 1]

\* the one-body half of C23
C23_OBRecords ==
  OBReturned =>
    LET swap == OBShell1.l < OBShell2.l
        bra == IF swap THEN OBShell2 ELSE OBShell1
        ket == IF swap THEN OBShell1 ELSE OBShell2
        depth == nprim(bra) * nprim(ket)
    IN /\ ob.contrdepth = depth
       /\ depth <= ob.nprimdata
       /\ OBRecsInOrder(ob.recs, bra, ket)
       /\ \A n \in 1..Len(obcall.kern) :
            /\ OBRecsInOrder(obcall.kern[n].recs, bra, ket)
            /\ ob.type_ = "nuclear" =>
                 \A k \in 1..depth : obcall.kern[n].recs[k].op = ob.q_[n]

\* the two-body half of C23, for the calls that pass the checks of compute
\* and run to their end
C23_TBRecords ==
  (tbcall.op = "compute" /\ tbcall.status \in {"ok", "ub_return"}) =>
    LET s == Swapped(TBShells, TBShells)
        depth == nprim(s[1]) * nprim(s[2]) * nprim(s[3]) * nprim(s[4])
    IN /\ tb.contrdepth = depth
       /\ depth <= tb.nprimdata
       /\ TBRecsInOrder(tb.recs, s)
       /\ \A n \in 1..Len(tbcall.kern) : TBRecsInOrder(tbcall.kern[n].recs, s)

\* C23: in every compute call that runs to its end the contraction depth of
\* record 0 is the product of the primitive counts of the canonical shells,
\* the records below the depth are records of the engine, record p holds
\* the p-th primitive combination in nested row-major order (for every
\* operator component, when the kernel reads it), and no record at or above
\* the depth is written
C23_ContractionDepth == C23_OBRecords /\ C23_TBRecords


\* C24: the charge list of an engine is the list of the last set_q call
\* (empty before the first); a nuclear call that returns has one operator
\* component per entry of that list, the n-th on the n-th nucleus, and no
\* other; on an overlap or kinetic engine a call has one operator component
\* and set_q changes the outcome of no compute call
C24_SetQReplaces ==
  /\ ob # NoEngine => ob.q_ = obcall.q
  /\ OBReturned =>
       LET nop == IF ob.type_ = "nuclear" THEN Len(obcall.q) ELSE 1
           depth == nprim(OBShell1) * nprim(OBShell2)
       IN IF OBShell1.l = 0 /\ OBShell2.l = 0
            THEN /\ obcall.kern = <<>>
                 /\ Len(OBResult(0)) = nop * depth
                 /\ ob.type_ = "nuclear" =>
                      \A k \in 1..(nop * depth) :
                        OBResult(0)[k][3][1] = obcall.q[((k - 1) \div depth) + 1][1]
            ELSE /\ Len(obcall.kern) = nop
                 /\ ob.type_ = "nuclear" =>
                      \A n \in 1..nop :
                        /\ Len(obcall.kern[n].recs) = depth
                        /\ \A k \in 1..depth : obcall.kern[n].recs[k].op = obcall.q[n]
  /\ (ob # NoEngine /\ obcall.status # "assert" /\ ob.type_ # "nuclear") =>
       \A q \in QLists, i1 \in basis, i2 \in basis :
         OBOutcome(OBCompute(OBSetQ(ob, q), ShellTable[i1], ShellTable[i2]))
           = OBOutcome(OBCompute(ob, ShellTable[i1], ShellTable[i2]))

\* a nuclear call with kernels after set_q with two nuclei, then set_q with
\* one nucleus
C24_Witness ==
  /\ OBReturned
  /\ ob.type_ = "nuclear"
  /\ Len(obcall.qprev) = 2 /\ Len(obcall.q) = 1
  /\ Len(obcall.kern) = 1


\* C25: every library handle that was acquired and not yet released is the
\* handle of an engine whose destructor releases it, and no handle is
\* released more than once: so every handle is released exactly once when
\* the engines are destroyed
C25_HandlesBalanced ==
  \A i \in 1..Len(mem) :
    mem[i].kind = "lib" =>
      /\ mem[i].cleanups <= 1
      /\ ~mem[i].live => mem[i].cleanups = 1
      /\ mem[i].live =>
           \E s \in Slots :
             /\ es[s].cls # "none"
             /\ LHandle(es[s], mem) = i
             /\ LFinalizeCalls(es[s]) = 1


\* the two-body engine as its constructor makes it
TBFresh(e) ==
  CHOOSE f \in {TBConstructK(e.kind, N, e.lmax_, e.deriv_order_, <<>>) : N \in 1..MaxNprim} :
    f.nprimdata = e.nprimdata

\* no element of the values v was left by an earlier call or never written
NoStale(v) == \A i \in DOMAIN v : \A k \in 1..Len(v[i]) : v[i][k] # <<"stale">>

\* C26: what a compute call that returns gives its caller (the number of
\* values, the values, and the records its kernel invocations read) is what
\* the same call gives on an engine of the same configuration (type,
\* capacities, charges) on which no call was made before, whatever calls
\* were made on the engine before; no value is one left in memory by an
\* earlier call
C26_HistoryIndependent ==
  /\ OBReturned =>
       \A r \in {OBCompute(OBSetQ(OBFresh(ob), ob.q_), OBShell1, OBShell2)} :
         /\ r.status = "ok"
         /\ OBOutcome(r) = [status |-> obcall.status, n |-> obcall.n,
                            kern |-> obcall.kern,
                            val |-> Block(ob[obcall.where], obcall.n)]
         /\ NoStale(Block(ob[obcall.where], obcall.n))
  /\ TBReturned =>
       \A r \in {TBCompute(TBFresh(tb), TBShells)} :
         /\ r.status = "ok"
         /\ r.n = tbcall.n
         /\ r.kern = tbcall.kern
         /\ Block(r.eng[r.where], r.n) = Block(tb[tbcall.where], tbcall.n)
         /\ NoStale(Block(tb[tbcall.where], tbcall.n))

\* a two-body call on four s shells has returned on an engine whose records
\* hold the geometric fields of an earlier call, and whose scratch_ holds
\* what an earlier call wrote
C26_Witness ==
  /\ TBReturned
  /\ \A k \in 1..4 : TBShells[k].l = 0
  /\ tb.recs[1].geom # <<"stale">>
  /\ tb.scratch_.rest = "stale"


\* the statements of TwoBodyEngine::compute that follow its checks
TBRun(e, t) == TBFinish(TBBuild(TBStart(e, TBCtx(t)), TBCtx(t)), TBCtx(t))

\* the elements 0..n-1 a call wrote or returned are elements of the buffer
Within(b, where, n) ==
  /\ Len(b.d) <= b.cap
  /\ where = "scratch_" => n <= b.cap

\* on an engine that was never moved from, assigned to or copied
C27_OwnScratch ==
  /\ OBReturned => Within(ob.scratch_, obcall.where, obcall.n)
  /\ TBReturned => Within(tb.scratch_, tbcall.where, tbcall.n)

\* on the engines of a run: a call that has passed the checks of compute and
\* has come back, on engine o
LScratchWithin(o, c) ==
  \A e \in {LLoad(o, mem)} :
    IF o.cls = "OB"
      THEN Within(e.scratch_, c.where, c.n)
      ELSE \A r \in {TBRun(e, <<ShellTable[c.s[1]], ShellTable[c.s[2]],
                                ShellTable[c.s[3]], ShellTable[c.s[4]]>>)} :
             Within(r.eng.scratch_, r.where, r.n)

\* C27: in every compute call that passes the checks compute makes, the
\* elements of scratch_ that are read or written (zero fill, accumulation,
\* solid-harmonics passes, un-permutation, the values returned) lie within
\* the size of scratch_
C27_ScratchBounds ==
  /\ C27_OwnScratch
  /\ (lcall.op = "compute" /\ lcall.status \in {"ok", "ub_return"})
       => LScratchWithin(es[lcall.slot], lcall)


(***************************************************************************)
(* The core-function evaluators of the engines of a run: nuclear one-body  *)
(* and Coulomb two-body engines, called with shells of the largest angular *)
(* momentum the engine was constructed for.                                *)
(***************************************************************************)
EvalConfigs == {a \in LifeConfigs : a[2] \in {"nuclear", "Coulomb"}}

EvalPairs == {<<1, 1>>, <<4, 4>>, <<8, 8>>}

EvalQuartets == {<<1, 1, 1, 1>>, <<4, 4, 4, 4>>}

InitEval == InitLife /\ lcall.args \in EvalConfigs

LEvalComputeAct == LComputeFor(EvalPairs, EvalQuartets)

NextEval ==
  \/ LDefaultAct
  \/ LCopyAct
  \/ LMoveAct
  \/ LCopyAssignAct
  \/ LDestroyAct
  \/ LSetQAct
  \/ LEvalComputeAct

SpecEval == InitEval /\ [][NextEval]_vars

\* the orders the records rs asked the evaluator of engine e for
EvalOrders(e, rs) ==
  {IF e.type_ = "eri" THEN rs[k].SS_EREP_SS[4] ELSE rs[k].ELECPOT[3] :
     k \in {j \in 1..Len(rs) : IF e.type_ = "eri" THEN rs[j].SS_EREP_SS # <<"stale">>
                                                  ELSE rs[j].ELECPOT # <<"stale">>}}

\* the orders the last call on engine e asked for: those of the records of
\* its kernel invocations and of the records it left
CallOrders(e, kern) ==
  EvalOrders(e, SubSeq(e.recs, 1, e.contrdepth))
    \cup UNION {EvalOrders(e, kern[n].recs) : n \in 1..Len(kern)}

\* on an engine that was never moved from, assigned to or copied
C28_OwnEngine ==
  /\ (OBReturned /\ ob.type_ = "nuclear")
       => \A m \in CallOrders(ob, obcall.kern) :
            m <= ob.fm_max /\ ob.fm_max = 2 * ob.lmax_ + ob.deriv_order_
  /\ TBReturned
       => \A m \in CallOrders(tb, tbcall.kern) :
            m <= tb.fm_max /\ tb.fm_max = 4 * tb.lmax_ + tb.deriv_order_

\* C28: the order a compute call asks the core-function evaluator for is
\* never above the order the evaluator was made for, 2*max_l + deriv_order
\* (nuclear one-body) or 4*max_l + deriv_order (two-body), on the engine that
\* was constructed and on every engine copy-constructed or copy-assigned
\* from it
C28_EvalOrder ==
  /\ C28_OwnEngine
  /\ (lcall.op = "compute" /\ lcall.status = "ok")
       => \A e \in {LLoad(es[lcall.slot], mem)} :
            \A m \in CallOrders(e, lcall.kern) :
              /\ m <= e.fm_max
              /\ e.fm_max = (IF e.type_ = "eri" THEN 4 ELSE 2) * e.lmax_ + e.deriv_order_

\* a call on a copy of the constructed engine, which is still in use, has
\* asked for the highest order the evaluator was made for
C28_Witness ==
  /\ lcall.op = "compute"
  /\ lcall.status = "ok"
  /\ lcall.slot = 2
  /\ LUsable(es[1])
  /\ \E m \in CallOrders(LLoad(es[2], mem), lcall.kern) : m = es[2].fm_max

====
